---- MODULE Spec2Model ----
(***************************************************************************)
(* Model of wotlk-chat-translator.  From src/src/chat.rs: the fingerprint  *)
(* cache of ChatReader with its poll and reset operations, the slot        *)
(* decoder ChatMessage::from_raw_bytes, the identifier counter             *)
(* NEXT_MESSAGE_ID, and the two markup functions strip_wow_formatting and  *)
(* parse_text_segments.  From src/src/translation.rs: the link             *)
(* placeholders of prepare_for_translation and restore_links.              *)
(*                                                                         *)
(* The remote chat buffer is outside the program: every poll reads         *)
(* whatever the game client has in it at that moment, so the buffer        *)
(* content and the outcome of the raw read are inputs of the Poll action.  *)
(*                                                                         *)
(* Spec is the reader under polls and resets.  DecoderSpec calls the       *)
(* decoder directly, IdSpec runs decodes on two threads, ParserSpec and    *)
(* TranslateSpec apply the pure functions to every input of a bounded set. *)
(***************************************************************************)
EXTENDS Integers, Sequences, FiniteSets, TLC

(***************************************************************************)
(* Bounds and layout constants.                                            *)
(***************************************************************************)

\* Number of slots of the modelled buffer (offsets::CHAT_BUFFER_SIZE is 60).
NumSlots == 2

\* Polls are enabled while the identifier counter is at most MaxId.
MaxId == 2

\* offsets::CHAT_MESSAGE_STRIDE, bytes per slot.
CHAT_MESSAGE_STRIDE == 6080

CHAT_BUFFER_SIZE == NumSlots

TOTAL_BUFFER_SIZE == CHAT_BUFFER_SIZE * CHAT_MESSAGE_STRIDE

Slots == 0 .. (CHAT_BUFFER_SIZE - 1)

(***************************************************************************)
(* Slot images.  A slot is a record of the byte ranges the program looks   *)
(* at: guid = bytes 0..7 (MSG_SENDER_GUID), b8 = bytes 8..15, formatted    *)
(* and plain = the two NUL-terminated text fields, mtype, chan, ts = the   *)
(* three u32 fields.  Texts are sequences of one-character strings.        *)
(***************************************************************************)

ZeroSlot ==
    [guid |-> 0, b8 |-> 0, formatted |-> <<>>, plain |-> <<>>,
     mtype |-> 0, chan |-> 0, ts |-> 0]

SlotImages ==
    { ZeroSlot,
      \* a message without timestamp and without formatted text
      [guid |-> 1, b8 |-> 0, formatted |-> <<>>, plain |-> <<"b">>,
       mtype |-> 7, chan |-> 0, ts |-> 0],
      \* same leading 16 bytes as the one above, other texts and a timestamp
      [guid |-> 1, b8 |-> 0, formatted |-> <<"a">>, plain |-> <<"c">>,
       mtype |-> 1, chan |-> 0, ts |-> 2],
      \* leading bytes set, no formatted text, plain text is markup only
      [guid |-> 2, b8 |-> 0, formatted |-> <<>>, plain |-> <<"|", "r">>,
       mtype |-> 0, chan |-> 0, ts |-> 1],
      \* leading 16 bytes all zero, texts present
      [guid |-> 0, b8 |-> 0, formatted |-> <<"a">>, plain |-> <<"b">>,
       mtype |-> 28, chan |-> 0, ts |-> 1],
      \* a colour code cut short by the end of the text, its eight bytes
      \* being two characters of four bytes
      [guid |-> 3, b8 |-> 0, formatted |-> <<"a">>,
       plain |-> <<"|", "c", "U4", "U4">>,
       mtype |-> 1, chan |-> 0, ts |-> 3] }

\* Lengths the raw read may deliver (it never delivers more than asked).
ReadLens == {0, CHAT_MESSAGE_STRIDE, TOTAL_BUFFER_SIZE - 1, TOTAL_BUFFER_SIZE}

\* The bytes a read of len bytes may deliver, as the sequence of the slots
\* that lie wholly inside them: data[i + 1] is slot i.
ReadData(len) == [1 .. (len \div CHAT_MESSAGE_STRIDE) -> SlotImages]

\* Slot i of the bytes read.
SlotOf(data, i) == data[i + 1]

(***************************************************************************)
(* strip_wow_formatting                                                    *)
(***************************************************************************)

\* Index just past the terminator "|" term, searching from j; Len(s)+1 when
\* the terminator is missing (the inner while-let loops).
RECURSIVE SkipUntil(_, _, _)
SkipUntil(s, j, term) ==
    IF j > Len(s) THEN j
    ELSE IF s[j] = "|" /\ j + 1 <= Len(s) /\ s[j + 1] = term THEN j + 2
    ELSE SkipUntil(s, j + 1, term)

Min(a, b) == IF a <= b THEN a ELSE b

RECURSIVE StripFrom(_, _)
StripFrom(s, i) ==
    IF i > Len(s) THEN <<>>
    ELSE IF s[i] # "|" THEN <<s[i]>> \o StripFrom(s, i + 1)
    ELSE IF i + 1 > Len(s) THEN <<s[i]>> \o StripFrom(s, i + 1)
    ELSE CASE s[i + 1] \in {"c", "C"} -> StripFrom(s, Min(i + 10, Len(s) + 1))
           [] s[i + 1] \in {"r", "R"} -> StripFrom(s, i + 2)
           [] s[i + 1] = "H" -> StripFrom(s, SkipUntil(s, i + 2, "h"))
           [] s[i + 1] = "h" -> StripFrom(s, i + 2)
           [] s[i + 1] = "T" -> StripFrom(s, SkipUntil(s, i + 2, "t"))
           [] OTHER -> <<s[i]>> \o StripFrom(s, i + 1)

strip_wow_formatting(text) == StripFrom(text, 1)

(***************************************************************************)
(* Strings.  A string is the sequence of its characters; a character is a  *)
(* one-letter TLA+ string, except the stand-ins for the characters whose   *)
(* UTF-8 encoding is longer than one byte: "U2", "U3" and "U4" are some    *)
(* character of two, three and four bytes ("U3" is also U+FFFD, the        *)
(* replacement character), "LB" and "RB" are U+3008 and U+3009.            *)
(***************************************************************************)

\* char::len_utf8
ByteLen(ch) ==
    CASE ch = "U2" -> 2
      [] ch \in {"U3", "LB", "RB"} -> 3
      [] ch = "U4" -> 4
      [] OTHER -> 1

\* String::len, the length in bytes.
RECURSIVE StrLen(_)
StrLen(s) == IF s = <<>> THEN 0 ELSE ByteLen(Head(s)) + StrLen(Tail(s))

\* The characters of s that end at or before byte offset k: their number.
CharsBefore(s, k) ==
    Cardinality({n \in 1 .. Len(s) : StrLen(SubSeq(s, 1, n)) <= k})

\* str::is_char_boundary
IsCharBoundary(s, k) == \E n \in 0 .. Len(s) : StrLen(SubSeq(s, 1, n)) = k

\* &s[a..b] for char boundaries a <= b.
ByteSlice(s, a, b) == SubSeq(s, CharsBefore(s, a) + 1, CharsBefore(s, b))

LowerHex == <<"0", "1", "2", "3", "4", "5", "6", "7", "8", "9",
              "a", "b", "c", "d", "e", "f">>

UpperHex == <<"0", "1", "2", "3", "4", "5", "6", "7", "8", "9",
              "A", "B", "C", "D", "E", "F">>

\* char::to_digit(16)
IsHexDigit(ch) == \E k \in 1 .. 16 : ch = LowerHex[k] \/ ch = UpperHex[k]

HexVal(ch) == (CHOOSE k \in 1 .. 16 : ch = LowerHex[k] \/ ch = UpperHex[k]) - 1

\* char::to_digit(10)
IsDigit(ch) == \E k \in 1 .. 10 : ch = LowerHex[k]

DigitVal(ch) == (CHOOSE k \in 1 .. 10 : ch = LowerHex[k]) - 1

\* format!("{}", n) for an unsigned n.
RECURSIVE Digits(_)
Digits(n) ==
    IF n < 10 THEN <<LowerHex[n + 1]>>
    ELSE Digits(n \div 10) \o <<LowerHex[(n % 10) + 1]>>

\* The digit loop of u8::from_str_radix(_, 16); -1 stands for Err.
RECURSIVE RadixFrom(_, _, _)
RadixFrom(s, i, acc) ==
    IF i > Len(s) THEN acc
    ELSE IF ~IsHexDigit(s[i]) THEN -1
    ELSE IF acc * 16 + HexVal(s[i]) > 255 THEN -1
    ELSE RadixFrom(s, i + 1, acc * 16 + HexVal(s[i]))

\* u8::from_str_radix(s, 16): an optional "+", then at least one digit.
from_str_radix(s) ==
    LET digits == IF s # <<>> /\ s[1] = "+" THEN Tail(s) ELSE s
    IN  IF digits = <<>> THEN -1 ELSE RadixFrom(digits, 1, 0)

\* u8::from_str_radix(&hex[a..b], 16).unwrap_or(255)
HexByte(hex, a, b) ==
    LET v == from_str_radix(ByteSlice(hex, a, b))
    IN  IF v < 0 THEN 255 ELSE v

\* The digit loop of str::parse::<u32>; -1 stands for Err (a character that
\* is no digit, or a value above u32::MAX = 4294967295).  A value in
\* 2^31 .. 2^32 - 1 parses in the program; it is returned as -2, the model's
\* integers ending at 2^31 - 1.
RECURSIVE ParseDecFrom(_, _, _)
ParseDecFrom(s, i, acc) ==
    IF i > Len(s) THEN acc
    ELSE IF ~IsDigit(s[i]) THEN -1
    ELSE IF acc < 214748364 \/ (acc = 214748364 /\ DigitVal(s[i]) <= 7)
    THEN ParseDecFrom(s, i + 1, acc * 10 + DigitVal(s[i]))
    ELSE IF /\ i = Len(s)
            /\ acc < 429496729 \/ (acc = 429496729 /\ DigitVal(s[i]) <= 5)
    THEN -2
    ELSE -1

\* A lenient reading of the id instead: the value of the leading digits, as
\* atoi reads it.
RECURSIVE LeadingDigits(_, _, _)
LeadingDigits(s, i, acc) ==
    IF i > Len(s) \/ ~IsDigit(s[i]) \/ acc > 99999 THEN acc
    ELSE LeadingDigits(s, i + 1, acc * 10 + DigitVal(s[i]))

ParseLeadingDigits(s) == LeadingDigits(s, 1, 0)

\* str::parse::<u32>().unwrap_or(0)
ParseU32Or0(s) ==
    LET digits == IF s # <<>> /\ s[1] = "+" THEN Tail(s) ELSE s
        v == IF digits = <<>> THEN -1 ELSE ParseDecFrom(digits, 1, 0)
    IN  IF v = -1 THEN 0 ELSE v

\* Index of the first ":" of s at or after i, Len(s) + 1 when there is none.
RECURSIVE FindColon(_, _)
FindColon(s, i) ==
    IF i > Len(s) THEN i ELSE IF s[i] = ":" THEN i ELSE FindColon(s, i + 1)

(***************************************************************************)
(* parse_wow_link_type and parse_text_segments                             *)
(***************************************************************************)

OtherLink == [kind |-> "Other"]

\* WowLinkType of the link data "kind:id:...".
parse_wow_link_type(data) ==
    LET c1 == FindColon(data, 1)
        kind == SubSeq(data, 1, c1 - 1)
        c2 == FindColon(data, c1 + 1)
        id == ParseU32Or0(SubSeq(data, c1 + 1, c2 - 1))
    IN  CASE kind = <<"i", "t", "e", "m">> -> [kind |-> "Item", id |-> id]
          [] kind = <<"s", "p", "e", "l", "l">> -> [kind |-> "Spell", id |-> id]
          [] kind = <<"e", "n", "c", "h", "a", "n", "t">> -> [kind |-> "Spell", id |-> id]
          [] kind = <<"a", "c", "h", "i", "e", "v", "e", "m", "e", "n", "t">>
               -> [kind |-> "Achievement", id |-> id]
          [] kind = <<"q", "u", "e", "s", "t">> -> [kind |-> "Quest", id |-> id]
          [] kind = <<"t", "r", "a", "d", "e">> -> [kind |-> "Trade", id |-> id]
          [] OTHER -> OtherLink

\* TextSegment::Plain and TextSegment::WowLink.  A colour is <<r, g, b>> in
\* units of 1/255 (alpha is always 1.0).
Plain(text) == [kind |-> "Plain", text |-> text]

WowLink(lt, name, color) ==
    [kind |-> "WowLink", link_type |-> lt, display_name |-> name, color |-> color]

\* [1.0, 1.0, 1.0, 1.0]
White == <<255, 255, 255>>

\* Option<_>: None is the empty sequence, Some(v) is <<v>>.
None == <<>>

Some(v) == <<v>>

\* What a panic of the parser leaves: no result.
ParsePanic == [panic |-> TRUE, segs |-> <<>>]

\* The link data of |H at i (i + 2 is its first character) and the index
\* after it: the characters up to the next "|h", or up to the end.
LinkDataEnd(s, i) ==
    LET r == SkipUntil(s, i + 2, "h")
        found == r - 2 >= i + 2 /\ s[r - 2] = "|" /\ s[r - 1] = "h"
    IN  IF found THEN r - 3 ELSE Len(s)

\* The three slices of lines 472-474: a slice whose ends are not character
\* boundaries panics.
HexSlicesOk(hex) ==
    IsCharBoundary(hex, 2) /\ IsCharBoundary(hex, 4) /\ IsCharBoundary(hex, 6)

\* The while loop of parse_text_segments from character i on, in the state
\* st = [cur, color, pending, lcolor, segs] of its local variables
\* current_text, current_color, pending_link, link_color and segments.
RECURSIVE ParseFrom(_, _, _)
ParseFrom(s, i, st) ==
    IF i > Len(s)
    THEN [panic |-> FALSE,
          segs |-> IF st.cur # <<>> THEN Append(st.segs, Plain(st.cur))
                   ELSE st.segs]
    ELSE IF s[i] # "|" \/ i + 1 > Len(s)
    THEN ParseFrom(s, i + 1, [st EXCEPT !.cur = Append(@, s[i])])
    ELSE CASE s[i + 1] \in {"c", "C"} ->
                LET hex == SubSeq(s, i + 2, Min(i + 9, Len(s)))
                    next == Min(i + 10, Len(s) + 1)
                IN  IF StrLen(hex) # 8 THEN ParseFrom(s, next, st)
                    ELSE IF ~HexSlicesOk(hex) THEN ParsePanic
                    ELSE ParseFrom(s, next,
                           [st EXCEPT !.color = Some(<<HexByte(hex, 2, 4),
                                                       HexByte(hex, 4, 6),
                                                       HexByte(hex, 6, 8)>>)])
           [] s[i + 1] \in {"r", "R"} ->
                ParseFrom(s, i + 2, [st EXCEPT !.color = None])
           [] s[i + 1] = "H" ->
                LET e == LinkDataEnd(s, i)
                    flushed == IF st.cur # <<>> THEN Append(st.segs, Plain(st.cur))
                               ELSE st.segs
                IN  ParseFrom(s, SkipUntil(s, i + 2, "h"),
                       [st EXCEPT !.segs = flushed,
                                  !.cur = <<>>,
                                  !.pending = Some(parse_wow_link_type(SubSeq(s, i + 2, e))),
                                  !.lcolor = st.color])
           [] s[i + 1] = "h" ->
                IF st.pending = None THEN ParseFrom(s, i + 2, st)
                ELSE ParseFrom(s, i + 2,
                       [st EXCEPT !.segs = Append(@, WowLink(st.pending[1], st.cur,
                                              IF st.lcolor = None THEN White
                                              ELSE st.lcolor[1])),
                                  !.cur = <<>>,
                                  !.pending = None,
                                  !.lcolor = None])
           [] s[i + 1] = "T" -> ParseFrom(s, SkipUntil(s, i + 2, "t"), st)
           [] OTHER -> ParseFrom(s, i + 1, [st EXCEPT !.cur = Append(@, s[i])])

parse_text_segments(raw) ==
    ParseFrom(raw, 1, [cur |-> <<>>, color |-> None, pending |-> None,
                       lcolor |-> None, segs |-> <<>>])

\* The display text of a segment: the text of a plain run, the display
\* name of a link.
SegText(seg) == IF seg.kind = "Plain" THEN seg.text ELSE seg.display_name

RECURSIVE ConcatText(_)
ConcatText(segs) ==
    IF segs = <<>> THEN <<>> ELSE SegText(Head(segs)) \o ConcatText(Tail(segs))

(***************************************************************************)
(* ChatMessage::from_raw_bytes                                             *)
(***************************************************************************)

NoMessage == [some |-> FALSE, panic |-> FALSE]

\* The decoder panicked: the call does not return.
Panicked == [some |-> FALSE, panic |-> TRUE]

\* String::from_utf8_lossy in read_cstring: the field is given as its bytes
\* up to the first NUL, with "BAD" for a byte that is not valid UTF-8; each
\* such byte becomes U+FFFD.
RECURSIVE read_cstring(_)
read_cstring(field) ==
    IF field = <<>> THEN <<>>
    ELSE <<IF Head(field) = "BAD" THEN "U3" ELSE Head(field)>>
         \o read_cstring(Tail(field))

\* Line 216: the slice is shorter than a slot.
NeverTooShort(len) == FALSE

TooShort(len) == len < CHAT_MESSAGE_STRIDE

\* The "unused slot" test of the decoder.
EmptyOnFormattedOnly(formatted, text) == formatted = <<>>

NeverEmpty(formatted, text) == FALSE

IsEmptySlot(formatted, text) == formatted = <<>> /\ text = <<>>

(***************************************************************************)
(* extract_sender_name and extract_channel_name.  Offsets are counted in   *)
(* characters from 1; 0 stands for None.  The patterns are ASCII, so the   *)
(* byte offsets of the program cut the text at the same places.            *)
(***************************************************************************)

\* str::find on s[from ..]: where pat first starts at or after from.
Find(s, pat, from) ==
    IF Len(s) - Len(pat) + 1 < from THEN 0
    ELSE LET hits == {i \in from .. Len(s) - Len(pat) + 1 :
                          SubSeq(s, i, i + Len(pat) - 1) = pat}
         IN  IF hits = {} THEN 0 ELSE CHOOSE i \in hits : \A j \in hits : i <= j

PlayerTag ==
    <<"P", "l", "a", "y", "e", "r", " ", "N", "a", "m", "e", ":", " ", "[">>

PlayerLink ==
    <<"|", "H", "p", "l", "a", "y", "e", "r", ":">>

ChannelTag ==
    <<"C", "h", "a", "n", "n", "e", "l", ":", " ", "[">>

ChannelLink ==
    <<"|", "H", "c", "h", "a", "n", "n", "e", "l", ":">>

LinkText == <<"|", "h", "[">>

\* The text from name_start up to the first occurrence of closer, when there
\* is one; <<>> when there is none, as for an empty name.
NameUpTo(s, name_start, closer) ==
    LET end == Find(s, closer, name_start)
    IN  IF end = 0 THEN <<>> ELSE SubSeq(s, name_start, end - 1)

\* One pattern of the two functions: the first occurrence of opener, then
\* the name up to closer.
NameAfter(s, opener, closer) ==
    LET start == Find(s, opener, 1)
    IN  IF start = 0 THEN <<>> ELSE NameUpTo(s, start + Len(opener), closer)

extract_sender_name(formatted) ==
    LET tagged == NameAfter(formatted, PlayerTag, <<"]">>)
        linked == NameAfter(formatted, PlayerLink, <<"|">>)
    IN  IF tagged # <<>> THEN tagged
        ELSE IF linked # <<>> THEN linked
        ELSE <<>>

\* Strategy 2 of extract_channel_name.
ChannelLinkName(formatted) ==
    LET start == Find(formatted, ChannelLink, 1)
        bracket == IF start = 0 THEN 0 ELSE Find(formatted, LinkText, start)
    IN  IF bracket = 0 THEN <<>>
        ELSE NameUpTo(formatted, bracket + 3, <<"]">>)

\* A fallback that writes the number whatever it is.
NumberAlways(channel_number) == Digits(channel_number)

\* Strategy 3 of extract_channel_name.
ChannelFallback(channel_number) ==
    IF channel_number > 0 THEN Digits(channel_number) ELSE <<>>

extract_channel_name(formatted, channel_number) ==
    LET tagged == NameAfter(formatted, ChannelTag, <<"]">>)
        linked == ChannelLinkName(formatted)
    IN  IF tagged # <<>> THEN tagged
        ELSE IF linked # <<>> THEN linked
        ELSE ChannelFallback(channel_number)

\* The categories of ChatMessageType in the order of their codes 0 .. 28.
CategoryNames ==
    << "Addon", "Say", "Party", "Raid", "Guild",
       "Officer", "Yell", "Whisper", "WhisperMob", "WhisperInform",
       "Emote", "TextEmote", "MonsterSay", "MonsterParty", "MonsterYell",
       "MonsterWhisper", "MonsterEmote", "Channel", "ChannelJoin", "ChannelLeave",
       "ChannelList", "ChannelNotice", "ChannelNoticeUser", "Afk", "Dnd",
       "Ignored", "Skill", "Loot", "System" >>

\* A from_u32 that forgets the code of an unknown category.
UnknownForgetsCode(value) ==
    IF value < Len(CategoryNames)
    THEN [kind |-> CategoryNames[value + 1]]
    ELSE [kind |-> "Unknown", code |-> 0]

\* ChatMessageType::from_u32: a named category for 0 .. 28, Unknown(value)
\* for every other value.
from_u32(value) ==
    IF value < Len(CategoryNames)
    THEN [kind |-> CategoryNames[value + 1]]
    ELSE [kind |-> "Unknown", code |-> value]

\* len is the length of the slice, img its content; id is the value of
\* NEXT_MESSAGE_ID the call would fetch.
from_raw_bytes(len, img, id) ==
    IF TooShort(len) THEN NoMessage
    ELSE LET formatted == read_cstring(img.formatted)
             raw_text == read_cstring(img.plain)
             text == strip_wow_formatting(raw_text)
             segments == parse_text_segments(raw_text)
         IN  IF segments.panic THEN Panicked
             ELSE IF IsEmptySlot(formatted, text) THEN NoMessage
             ELSE [some |-> TRUE, panic |-> FALSE,
                   msg |-> [id |-> id,
                            sender_guid |-> img.guid,
                            text |-> text,
                            formatted |-> formatted,
                            message_type |-> from_u32(img.mtype),
                            sender_name |-> extract_sender_name(formatted),
                            channel_name |->
                                extract_channel_name(formatted, img.chan),
                            channel_number |-> img.chan,
                            timestamp |-> img.ts,
                            segments |-> segments.segs]]

(***************************************************************************)
(* ChatReader                                                              *)
(***************************************************************************)

\* The first FINGERPRINT_LEN = 16 bytes of a slot.
Fingerprint(img) == <<img.guid, img.b8>>

ZeroFp == <<0, 0>>

ZeroFingerprints == [i \in Slots |-> ZeroFp]

VARIABLES
    fingerprints,   \* ChatReader.fingerprints
    initialized,    \* ChatReader.initialized
    nextId,         \* NEXT_MESSAGE_ID
    op,             \* the last operation: "new", "poll" or "reset"
    rd,             \* the raw read of the last poll: [kind, len, prefixNew, same]
    is_first,       \* the local is_first of the last poll that got the full buffer
    decoded,        \* the slots the last poll handed to from_raw_bytes
    new_messages,   \* the sorted (key, message) list of the last poll, with the slot
    ret,            \* how the last poll ended: "none", "Ok", "Err" or "panic"
    lastFull,       \* the buffer the last full read delivered since new/reset
    decode_data,    \* the slice of the last direct from_raw_bytes call
    decode_ret,     \* what that call returned
    parse_raw,      \* the string given to the two markup functions
    parse_ret,      \* what strip_wow_formatting and parse_text_segments made of it
    tr_segments,    \* the segments given to prepare_for_translation
    tr_ret,         \* its result, and what restore_links makes of that
    pc,             \* per decoding thread: "idle", or "built" once it holds an id
    fetched,        \* per decoding thread: the id its fetch_add returned
    issued,         \* the ids in the order of the fetch_add calls
    produced,       \* the ids in the order the messages were returned
    url_in,         \* the link type and display name given to wowhead_url
    url_ret,        \* the URL it returned
    ex_in,          \* the formatted text and channel number given to the extractors
    ex_ret,         \* the sender name and channel name they returned
    platform,       \* the memory reader built: "linux" or "windows"
    handle,         \* the reader's mem_file / handle: None or Some(h)
    os,             \* the OS side: the handles open, the number opened so far
    mem_call,       \* the last call on the memory reader and its result
    scan_in,        \* the target's regions, the needle and how reads behave
    scan_ret,       \* what scan_for_bytes returned, and the reads it made
    pl_in,          \* the target's memory given to find_local_player_base
    pl_ret,         \* what find_local_player_base returned
    attached_pid,   \* AppState.attached_pid: None or Some(pid)
    chat_messages,  \* AppState.chat_messages, each with the attachment it is from
    player_info,    \* AppState.player_info: None or Some(_)
    frame,          \* where the frame loop is: "poll", "responses" or "ui"
    polled,         \* during a frame: its poll and what that returned
    ui,             \* between frames: the user's action of the frame that ended
    synced,         \* a poll has got the whole buffer since the last attach
    appended,       \* the messages appended since the list was last cleared
    translation_service,  \* AppState.translation_service: None or Some(s)
    translation_rx,       \* AppState.translation_rx: None or Some(s)
    translations,         \* AppState.translations: message id -> entry
    translator_pending,   \* AppState.translator_pending
    auto_translate,       \* AppState.auto_translate
    services        \* the translation services started: channels and worker

\* The variables besides the reader's and the counter: the direct calls of
\* the decoder, of the markup functions and of the translation helpers, and
\* the decoding threads.
decoderVars == <<decode_data, decode_ret>>

parserVars == <<parse_raw, parse_ret>>

translateVars == <<tr_segments, tr_ret>>

threadVars == <<pc, fetched, issued, produced>>

linkVars == <<url_in, url_ret>>

extractVars == <<ex_in, ex_ret>>

\* The variables of the functions and components outside the reader, the
\* decoder, the markup functions and the translation helpers.
memoryVars == <<platform, handle, os, mem_call>>

scanVars == <<scan_in, scan_ret>>

playerVars == <<pl_in, pl_ret>>

\* The variables of player.rs, of the application and of the translation
\* service.
appVars == <<attached_pid, chat_messages, player_info, frame, polled, ui,
             synced, appended>>

serviceVars == <<translation_service, translation_rx, translations,
                 translator_pending, auto_translate, services>>

restVars == <<playerVars, appVars, serviceVars>>

otherVars == <<linkVars, extractVars, memoryVars, scanVars, restVars>>

vars == <<fingerprints, initialized, nextId, op, rd, is_first, decoded,
          new_messages, ret, lastFull, decoderVars, parserVars,
          translateVars, threadVars, otherVars>>

\* The threads that decode concurrently.
Threads == {"t1", "t2"}

\* No direct call has been made.
NoCall == [called |-> FALSE]

DecoderIdle == decode_data = NoCall /\ decode_ret = NoMessage

ParserIdle == parse_raw = <<>> /\ parse_ret = NoCall

TranslateIdle == tr_segments = <<>> /\ tr_ret = NoCall

ThreadsIdle ==
    /\ pc = [t \in Threads |-> "idle"]
    /\ fetched = [t \in Threads |-> 0]
    /\ issued = <<>>
    /\ produced = <<>>

LinkIdle == url_in = NoCall /\ url_ret = NoCall

ExtractIdle == ex_in = NoCall /\ ex_ret = NoCall

\* No memory reader has been built.
MemoryIdle ==
    /\ platform = "none"
    /\ handle = <<>>
    /\ os = [open |-> {}, opened |-> 0]
    /\ mem_call = NoCall

ScanIdle == scan_in = NoCall /\ scan_ret = NoCall

PlayerIdle == pl_in = NoCall /\ pl_ret = NoCall

\* A map without entries.
EmptyMap == [m \in {} |-> "Pending"]

\* No application runs.
AppIdle ==
    /\ attached_pid = <<>>
    /\ chat_messages = <<>>
    /\ player_info = <<>>
    /\ frame = "poll"
    /\ polled = NoCall
    /\ ui = NoCall
    /\ synced = FALSE
    /\ appended = <<>>

ServiceIdle ==
    /\ translation_service = <<>>
    /\ translation_rx = <<>>
    /\ translations = EmptyMap
    /\ translator_pending = FALSE
    /\ auto_translate = FALSE
    /\ services = <<>>

RestIdle == PlayerIdle /\ AppIdle /\ ServiceIdle

OthersIdle == LinkIdle /\ ExtractIdle /\ MemoryIdle /\ ScanIdle /\ RestIdle

\* Line 273: NEXT_MESSAGE_ID.fetch_add(1, Relaxed) leaves the counter one up.
FetchAddNothing(n) == n

FetchAdd(n) == n + 1

NoBuf == <<>>

NoRead == [kind |-> "none", len |-> 0, prefixNew |-> FALSE, same |-> FALSE]

\* Line 646: the slot is skipped as unchanged.
AlwaysChanged(first, fp, cached) == FALSE

SlotUnchanged(first, fp, cached) == ~first /\ fp = cached

\* Line 651: the all-zero fingerprint of a cleared slot.
NeverZero(fp) == FALSE

IsZeroFp(fp) == fp = ZeroFp

\* Lines 661-665.
OrderKey(msg, i) == IF msg.timestamp > 0 THEN msg.timestamp ELSE i

\* Lines 653 and 671: self.fingerprints[i] = fp.
StoreNothing(fps, i, fp) == fps

StoreFp(fps, i, fp) == [fps EXCEPT ![i] = fp]

\* from_raw_bytes on every slot content, with identifier 0: but for the
\* identifier, what it returns depends on the slot content alone.
SlotDecoded ==
    [img \in SlotImages |-> from_raw_bytes(CHAT_MESSAGE_STRIDE, img, 0)]

\* Line 659: from_raw_bytes on the slot, which fetches identifier id when
\* it returns a message.
DecodeSlot(img, id) ==
    IF SlotDecoded[img].some
    THEN [SlotDecoded[img] EXCEPT !.msg.id = id]
    ELSE SlotDecoded[img]

\* The for loop of poll over the slots i .. CHAT_BUFFER_SIZE-1, from the
\* accumulated state acc = [fps, msgs, dec, id, panic]; a panic of the
\* decoder ends the loop (and the process) at that slot.
RECURSIVE PollLoop(_, _, _, _)
PollLoop(i, buf, first, acc) ==
    IF i >= CHAT_BUFFER_SIZE THEN acc
    ELSE LET fp == Fingerprint(SlotOf(buf, i))
         IN  IF SlotUnchanged(first, fp, acc.fps[i])
             THEN PollLoop(i + 1, buf, first, acc)
             ELSE IF IsZeroFp(fp)
             THEN PollLoop(i + 1, buf, first,
                           [acc EXCEPT !.fps = StoreFp(@, i, fp)])
             ELSE LET r == DecodeSlot(SlotOf(buf, i), acc.id)
                  IN  IF r.panic
                      THEN [acc EXCEPT !.dec = @ \cup {i}, !.panic = TRUE]
                      ELSE
                      PollLoop(i + 1, buf, first,
                        [fps  |-> StoreFp(acc.fps, i, fp),
                         msgs |-> IF r.some
                                  THEN Append(acc.msgs,
                                              [key |-> OrderKey(r.msg, i),
                                               slot |-> i, msg |-> r.msg])
                                  ELSE acc.msgs,
                         dec  |-> acc.dec \cup {i},
                         id   |-> IF r.some THEN FetchAdd(acc.id) ELSE acc.id,
                         panic |-> FALSE])

\* Stable insertion of e into the key-sorted sequence s.
RECURSIVE InsertByKey(_, _)
InsertByKey(s, e) ==
    IF s = <<>> THEN <<e>>
    ELSE IF s[Len(s)].key <= e.key THEN Append(s, e)
    ELSE Append(InsertByKey(SubSeq(s, 1, Len(s) - 1), e), s[Len(s)])

RECURSIVE SortFrom(_, _, _)
SortFrom(s, i, acc) ==
    IF i > Len(s) THEN acc ELSE SortFrom(s, i + 1, InsertByKey(acc, s[i]))

Unsorted(s) == s

\* Line 683: new_messages.sort_by_key, a stable sort.
SortByKey(s) == SortFrom(s, 1, <<>>)

\* Line 626: the read came back short.
ShortOnlyWhenEmpty(len) == len = 0

IsShort(len) == len < TOTAL_BUFFER_SIZE

\* Lines 674-676: the flag after a poll that got the full buffer.
FlagKept(first, init) == init

InitializedAfter(first, init) == IF first THEN TRUE ELSE init

\* Some slot that lies wholly inside the bytes read has a
\* fingerprint that is nonzero and differs from the cached one.
PrefixHasNew(data, fps) ==
    \E i \in Slots : /\ i + 1 <= Len(data)
                     /\ Fingerprint(SlotOf(data, i)) # ZeroFp
                     /\ Fingerprint(SlotOf(data, i)) # fps[i]

Init ==
    /\ fingerprints = ZeroFingerprints
    /\ initialized = FALSE
    /\ nextId = 1
    /\ op = "new"
    /\ rd = NoRead
    /\ is_first = FALSE
    /\ decoded = {}
    /\ new_messages = <<>>
    /\ ret = "none"
    /\ lastFull = NoBuf
    /\ DecoderIdle /\ ParserIdle /\ TranslateIdle /\ ThreadsIdle
    /\ OthersIdle

\* What poll returns when read_memory fails (the ? of line 625).
ErrAsEmpty == "Ok"

ReturnOnReadError == "Err"

\* poll, when read_memory returns an error.
PollReadError ==
    /\ ret # "panic"
    /\ nextId <= MaxId
    /\ op' = "poll"
    /\ rd' = [kind |-> "err", len |-> 0, prefixNew |-> FALSE, same |-> FALSE]
    /\ ret' = ReturnOnReadError
    /\ new_messages' = <<>>
    /\ decoded' = {}
    /\ is_first' = FALSE
    /\ UNCHANGED <<fingerprints, initialized, nextId, lastFull>>
    /\ UNCHANGED <<decoderVars, parserVars, translateVars, threadVars>>
    /\ UNCHANGED otherVars

\* The reader state poll leaves behind after a short read (lines 626-633).
ShortClearsCache(fps, init) == [fps |-> ZeroFingerprints, init |-> FALSE]

AfterShortRead(fps, init) == [fps |-> fps, init |-> init]

\* poll, when read_memory delivers the len bytes data of the remote buffer.
PollRead(data, len) ==
    /\ ret # "panic"
    /\ nextId <= MaxId
    /\ op' = "poll"
    /\ UNCHANGED <<decoderVars, parserVars, translateVars, threadVars>>
    /\ UNCHANGED otherVars
    /\ IF IsShort(len)
       THEN LET st == AfterShortRead(fingerprints, initialized)
            IN  /\ rd' = [kind |-> "short", len |-> len,
                          prefixNew |-> PrefixHasNew(data, fingerprints),
                          same |-> FALSE]
                /\ ret' = "Ok"
                /\ new_messages' = <<>>
                /\ decoded' = {}
                /\ is_first' = FALSE
                /\ fingerprints' = st.fps
                /\ initialized' = st.init
                /\ UNCHANGED <<nextId, lastFull>>
       ELSE IF Len(data) < CHAT_BUFFER_SIZE
       THEN \* buffer[offset..offset + FINGERPRINT_LEN] past the end of the
            \* bytes read panics; the length check above excludes it.
            /\ rd' = [kind |-> "full", len |-> len, prefixNew |-> FALSE,
                      same |-> FALSE]
            /\ ret' = "panic"
            /\ UNCHANGED <<new_messages, decoded, is_first, fingerprints,
                           initialized, nextId, lastFull>>
       ELSE LET first == ~initialized
                r == PollLoop(0, data, first,
                              [fps |-> fingerprints, msgs |-> <<>>,
                               dec |-> {}, id |-> nextId, panic |-> FALSE])
            IN  /\ rd' = [kind |-> "full", len |-> len, prefixNew |-> FALSE,
                          same |-> (data = lastFull)]
                /\ ret' = IF r.panic THEN "panic" ELSE "Ok"
                /\ new_messages' = IF r.panic THEN <<>> ELSE SortByKey(r.msgs)
                /\ decoded' = r.dec
                /\ is_first' = first
                /\ fingerprints' = r.fps
                /\ initialized' = IF r.panic THEN initialized
                                  ELSE InitializedAfter(first, initialized)
                /\ nextId' = r.id
                /\ lastFull' = data

Poll ==
    \/ PollReadError
    \/ \E len \in ReadLens : \E data \in ReadData(len) : PollRead(data, len)

\* Line 618: the cache reset leaves behind.
CacheKept(fps) == fps

ClearedCache(fps) == ZeroFingerprints

\* ChatReader::reset
Reset ==
    /\ ret # "panic"
    /\ op' = "reset"
    /\ fingerprints' = ClearedCache(fingerprints)
    /\ initialized' = FALSE
    /\ rd' = NoRead
    /\ is_first' = FALSE
    /\ decoded' = {}
    /\ new_messages' = <<>>
    /\ ret' = "none"
    /\ lastFull' = NoBuf
    /\ UNCHANGED <<nextId, decoderVars, parserVars, translateVars, threadVars>>
    /\ UNCHANGED otherVars

Next == Poll \/ Reset

Spec == Init /\ [][Next]_vars

(***************************************************************************)
(* The decoder called directly: ChatMessage::from_raw_bytes on slices of   *)
(* any length and content, one call after the other.                       *)
(***************************************************************************)

readerVars == <<fingerprints, initialized, op, rd, is_first, decoded,
                new_messages, ret, lastFull>>

\* A reader nobody polls.
ReaderIdle ==
    /\ fingerprints = ZeroFingerprints
    /\ initialized = FALSE
    /\ op = "new"
    /\ rd = NoRead
    /\ is_first = FALSE
    /\ decoded = {}
    /\ new_messages = <<>>
    /\ ret = "none"
    /\ lastFull = NoBuf

\* Lengths of the slices handed to the decoder.
DecoderLens ==
    {0, CHAT_MESSAGE_STRIDE - 1, CHAT_MESSAGE_STRIDE, CHAT_MESSAGE_STRIDE + 1}

\* Contents of the plain text field: empty, markup only, a byte that is not
\* UTF-8, a colour code with non-hex digits cut short by the end of the text,
\* an unterminated link, an unterminated texture, and a colour code cut short
\* whose eight bytes hold a byte that is not UTF-8.
DecoderPlains ==
    { <<>>,
      <<"|", "r">>,
      <<"BAD">>,
      <<"|", "c", "z", "z">>,
      <<"|", "H", "x">>,
      <<"a", "|", "T", "x">>,
      <<"|", "c", "f", "BAD", "0", "0", "0", "0">> }

\* Category codes in the slot: the first and the last named one, the first
\* unnamed one and an arbitrary one.
DecoderTypes == {0, 28, 29, 999}

\* Slot contents: every combination of a sender id, a formatted text, a
\* plain text and zero or arbitrary numeric fields.
DecoderImages ==
    { [guid |-> g, b8 |-> 0, formatted |-> f, plain |-> p,
       mtype |-> m, chan |-> n, ts |-> n] :
        g \in {0, 7}, f \in {<<>>, <<"a">>}, p \in DecoderPlains,
        m \in DecoderTypes, n \in {0, 999} }

DecoderInit ==
    /\ ReaderIdle
    /\ nextId = 1
    /\ DecoderIdle /\ ParserIdle /\ TranslateIdle /\ ThreadsIdle
    /\ OthersIdle

\* One call of from_raw_bytes on a slice of len bytes with content img.
\* A panic ends the process.
Decode(len, img) ==
    /\ ~decode_ret.panic
    /\ nextId <= MaxId
    /\ decode_data' = [called |-> TRUE, len |-> len, img |-> img, id |-> nextId]
    /\ decode_ret' = from_raw_bytes(len, img, nextId)
    /\ nextId' = IF decode_ret'.some THEN FetchAdd(nextId) ELSE nextId
    /\ UNCHANGED <<readerVars, parserVars, translateVars, threadVars>>
    /\ UNCHANGED otherVars

DecoderNext == \E len \in DecoderLens : \E img \in DecoderImages : Decode(len, img)

DecoderSpec == DecoderInit /\ [][DecoderNext]_vars

(***************************************************************************)
(* NEXT_MESSAGE_ID under concurrent decodes: every thread runs             *)
(* from_raw_bytes on slots that hold a message, on a reader of its own or  *)
(* none; the fetch_add of line 273 is the one step that touches the shared *)
(* counter.  The reader may be reset (detach, re-attach) at any moment.     *)
(***************************************************************************)

\* Threads fetch identifiers while the counter is at most MaxIssued.
MaxIssued == 4

IdInit ==
    /\ ReaderIdle
    /\ nextId = 1
    /\ DecoderIdle /\ ParserIdle /\ TranslateIdle /\ ThreadsIdle
    /\ OthersIdle

\* Thread t, building a message, reaches line 273.
FetchId(t) ==
    /\ pc[t] = "idle"
    /\ nextId <= MaxIssued
    /\ fetched' = [fetched EXCEPT ![t] = nextId]
    /\ nextId' = FetchAdd(nextId)
    /\ issued' = Append(issued, nextId)
    /\ pc' = [pc EXCEPT ![t] = "built"]
    /\ UNCHANGED produced
    /\ UNCHANGED <<readerVars, decoderVars, parserVars, translateVars>>
    /\ UNCHANGED otherVars

\* Thread t returns the message it built.
Return(t) ==
    /\ pc[t] = "built"
    /\ produced' = Append(produced, fetched[t])
    /\ pc' = [pc EXCEPT ![t] = "idle"]
    /\ UNCHANGED <<fetched, issued, nextId>>
    /\ UNCHANGED <<readerVars, decoderVars, parserVars, translateVars>>
    /\ UNCHANGED otherVars

IdNext ==
    \/ \E t \in Threads : FetchId(t)
    \/ \E t \in Threads : Return(t)
    \/ Reset

IdSpec == IdInit /\ [][IdNext]_vars

(***************************************************************************)
(* The two markup functions on one string: strip_wow_formatting and        *)
(* parse_text_segments, as from_raw_bytes applies them to the plain text.  *)
(***************************************************************************)

\* Strings of up to MaxLen characters are tried.
MaxLen == 4

\* The characters the strings are made of: the pipe, the letters of the
\* escapes, an ordinary letter and a character of four bytes.
ParserChars == {"|", "c", "r", "H", "h", "T", "t", "a", "U4"}

\* "|cffff0000Hello|r |Hitem:12345:0:0|h[Sword]|h!"
ExampleText ==
    <<"|", "c", "f", "f", "f", "f", "0", "0", "0", "0", "H", "e", "l", "l", "o",
      "|", "r", " ", "|", "H", "i", "t", "e", "m", ":", "1", "2", "3", "4", "5",
      ":", "0", ":", "0", "|", "h", "[", "S", "w", "o", "r", "d", "]", "|", "h",
      "!">>

ParserInputs ==
    UNION {[1 .. n -> ParserChars] : n \in 0 .. MaxLen} \cup {ExampleText}

ParserInit ==
    /\ ReaderIdle
    /\ nextId = 1
    /\ DecoderIdle /\ TranslateIdle /\ ThreadsIdle
    /\ OthersIdle
    /\ parse_raw \in ParserInputs
    /\ parse_ret = NoCall

\* Lines 228-229: both functions applied to the same string.
ParseAndStrip ==
    /\ ~parse_ret.called
    /\ parse_ret' = [called |-> TRUE,
                     text |-> strip_wow_formatting(parse_raw),
                     segments |-> parse_text_segments(parse_raw)]
    /\ UNCHANGED parse_raw
    /\ UNCHANGED <<readerVars, nextId, decoderVars, translateVars, threadVars>>
    /\ UNCHANGED otherVars

ParserNext == ParseAndStrip

ParserSpec == ParserInit /\ [][ParserNext]_vars

(***************************************************************************)
(* The link placeholders of translation.rs: prepare_for_translation and    *)
(* restore_links.                                                          *)
(***************************************************************************)

\* format!("\u{3008}{}\u{3009}", i)
PlaceholderFromZero(i) == <<"LB">> \o Digits(i - 1) \o <<"RB">>

Placeholder(i) == <<"LB">> \o Digits(i) \o <<"RB">>

\* The for loop of prepare_for_translation from segment k on, with
\* acc = [text, link_names].
RECURSIVE PrepareFrom(_, _, _)
PrepareFrom(segs, k, acc) ==
    IF k > Len(segs) THEN acc
    ELSE IF segs[k].kind = "Plain"
    THEN PrepareFrom(segs, k + 1, [acc EXCEPT !.text = @ \o segs[k].text])
    ELSE LET names == Append(acc.link_names, segs[k].display_name)
         IN  PrepareFrom(segs, k + 1,
                         [text |-> acc.text \o Placeholder(Len(names)),
                          link_names |-> names])

prepare_for_translation(segs) ==
    PrepareFrom(segs, 1, [text |-> <<>>, link_names |-> <<>>])

\* str::replace: the non-overlapping matches of pat in s, from the left.
RECURSIVE ReplaceFrom(_, _, _, _)
ReplaceFrom(s, i, pat, to) ==
    IF i > Len(s) THEN <<>>
    ELSE IF i + Len(pat) - 1 <= Len(s) /\ SubSeq(s, i, i + Len(pat) - 1) = pat
    THEN to \o ReplaceFrom(s, i + Len(pat), pat, to)
    ELSE <<s[i]>> \o ReplaceFrom(s, i + 1, pat, to)

Replace(s, pat, to) == ReplaceFrom(s, 1, pat, to)

\* format!("[{}]", name)
Bracketed(name) == <<"[">> \o name \o <<"]">>

\* The for loop of restore_links from the enumerate index i (0-based) on.
RECURSIVE RestoreFrom(_, _, _)
RestoreFrom(result, link_names, i) ==
    IF i >= Len(link_names) THEN result
    ELSE RestoreFrom(Replace(result, Placeholder(i + 1), Bracketed(link_names[i + 1])),
                     link_names, i + 1)

restore_links(translated, link_names) == RestoreFrom(translated, link_names, 0)

\* Segment sequences of up to MaxSegs segments are tried.
MaxSegs == 3

\* The segments they are made of: a plain run, a plain run that reads like
\* the first placeholder, a link, a link named with its brackets as
\* parse_text_segments leaves them, and a link whose name reads like the
\* second placeholder.
SegOptions ==
    { Plain(<<"a">>),
      Plain(Placeholder(1)),
      WowLink([kind |-> "Item", id |-> 7], <<"S">>, White),
      WowLink([kind |-> "Spell", id |-> 8], <<"[", "T", "]">>, White),
      WowLink(OtherLink, <<"LB", "2", "RB">>, White) }

\* One reference named "Sword".
SwordSegments ==
    <<WowLink([kind |-> "Item", id |-> 12345], <<"S", "w", "o", "r", "d">>, White)>>

\* Eleven references with a plain run in their midst.
ManyLinks ==
    [k \in 1 .. 12 |-> IF k = 2 THEN Plain(<<"a">>)
                       ELSE WowLink([kind |-> "Item", id |-> k], <<"n">> \o Digits(k), White)]

TranslateInputs ==
    UNION {[1 .. n -> SegOptions] : n \in 0 .. MaxSegs}
        \cup {SwordSegments, ManyLinks}

TranslateInit ==
    /\ ReaderIdle
    /\ nextId = 1
    /\ DecoderIdle /\ ParserIdle /\ ThreadsIdle
    /\ OthersIdle
    /\ tr_segments \in TranslateInputs
    /\ tr_ret = NoCall

\* prepare_for_translation, then restore_links on its unmodified output.
PrepareAndRestore ==
    /\ ~tr_ret.called
    /\ LET p == prepare_for_translation(tr_segments)
       IN  tr_ret' = [called |-> TRUE, text |-> p.text, link_names |-> p.link_names,
                      restored |-> restore_links(p.text, p.link_names)]
    /\ UNCHANGED tr_segments
    /\ UNCHANGED <<readerVars, nextId, decoderVars, parserVars, threadVars>>
    /\ UNCHANGED otherVars

TranslateNext == PrepareAndRestore

TranslateSpec == TranslateInit /\ [][TranslateNext]_vars

(***************************************************************************)
(* WowLinkType::wowhead_url and url_encode                                 *)
(***************************************************************************)

\* The printable ASCII characters in the order of their codes 32 .. 126;
\* GRAVE stands for the grave accent, code 96.
Ascii ==
    <<" ", "!", "\"", "#", "$", "%", "&", "'", "(", ")", "*", "+", ",",
      "-", ".", "/", "0", "1", "2", "3", "4", "5", "6", "7", "8", "9",
      ":", ";", "<", "=", ">", "?", "@", "A", "B", "C", "D", "E", "F",
      "G", "H", "I", "J", "K", "L", "M", "N", "O", "P", "Q", "R", "S",
      "T", "U", "V", "W", "X", "Y", "Z", "[", "\\", "]", "^", "_", "GRAVE",
      "a", "b", "c", "d", "e", "f", "g", "h", "i", "j", "k", "l", "m",
      "n", "o", "p", "q", "r", "s", "t", "u", "v", "w", "x", "y", "z",
      "{", "|", "}", "~">>

AsciiCode(ch) == 31 + (CHOOSE k \in 1 .. Len(Ascii) : Ascii[k] = ch)

\* The UTF-8 bytes of a character: U2 stands for U+00E9, U3 for U+FFFD, LB
\* and RB for U+3008 and U+3009, U4 for U+1F600.
Utf8Bytes(ch) ==
    CASE ch = "U2" -> <<195, 169>>
      [] ch = "U3" -> <<239, 191, 189>>
      [] ch = "LB" -> <<227, 128, 136>>
      [] ch = "RB" -> <<227, 128, 137>>
      [] ch = "U4" -> <<240, 159, 152, 128>>
      [] OTHER -> <<AsciiCode(ch)>>

\* str::bytes
RECURSIVE Bytes(_)
Bytes(s) == IF s = <<>> THEN <<>> ELSE Utf8Bytes(Head(s)) \o Bytes(Tail(s))

\* The first match arm of url_encode: A-Z, a-z, 0-9, "-", "_", "." and "~".
IsUnreservedByte(b) ==
    \/ b \in 65 .. 90 \/ b \in 97 .. 122 \/ b \in 48 .. 57
    \/ b \in {45, 95, 46, 126}

\* An encoder that writes a space as %20.
EncodeSpaceAsHex(b) ==
    IF IsUnreservedByte(b) THEN <<Ascii[b - 31]>>
    ELSE <<"%", UpperHex[(b \div 16) + 1], UpperHex[(b % 16) + 1]>>

\* The match of url_encode on one byte; the last arm is format!("%{:02X}").
EncodeByte(b) ==
    IF IsUnreservedByte(b) THEN <<Ascii[b - 31]>>
    ELSE IF b = 32 THEN <<"+">>
    ELSE <<"%", UpperHex[(b \div 16) + 1], UpperHex[(b % 16) + 1]>>

RECURSIVE EncodeBytes(_)
EncodeBytes(bs) ==
    IF bs = <<>> THEN <<>> ELSE EncodeByte(Head(bs)) \o EncodeBytes(Tail(bs))

url_encode(s) == EncodeBytes(Bytes(s))

ItemUrl ==
    <<"h", "t", "t", "p", "s", ":", "/", "/", "w", "w", "w", ".", "w",
      "o", "w", "h", "e", "a", "d", ".", "c", "o", "m", "/", "i", "t",
      "e", "m", "=">>

SpellUrl ==
    <<"h", "t", "t", "p", "s", ":", "/", "/", "w", "w", "w", ".", "w",
      "o", "w", "h", "e", "a", "d", ".", "c", "o", "m", "/", "s", "p",
      "e", "l", "l", "=">>

AchievementUrl ==
    <<"h", "t", "t", "p", "s", ":", "/", "/", "w", "w", "w", ".", "w",
      "o", "w", "h", "e", "a", "d", ".", "c", "o", "m", "/", "a", "c",
      "h", "i", "e", "v", "e", "m", "e", "n", "t", "=">>

QuestUrl ==
    <<"h", "t", "t", "p", "s", ":", "/", "/", "w", "w", "w", ".", "w",
      "o", "w", "h", "e", "a", "d", ".", "c", "o", "m", "/", "w", "o",
      "t", "l", "k", "/", "q", "u", "e", "s", "t", "=">>

TradeUrl ==
    <<"h", "t", "t", "p", "s", ":", "/", "/", "w", "w", "w", ".", "w",
      "o", "w", "h", "e", "a", "d", ".", "c", "o", "m", "/", "w", "o",
      "t", "l", "k", "/", "s", "k", "i", "l", "l", "=">>

SearchUrl ==
    <<"h", "t", "t", "p", "s", ":", "/", "/", "w", "w", "w", ".", "w",
      "o", "w", "h", "e", "a", "d", ".", "c", "o", "m", "/", "s", "e",
      "a", "r", "c", "h", "?", "q", "=">>

\* The match of wowhead_url; the guard id > 0 on a u32 is id # 0.
wowhead_url(link_type, display_name) ==
    IF link_type.kind = "Item" /\ link_type.id # 0
    THEN ItemUrl \o Digits(link_type.id)
    ELSE IF link_type.kind = "Spell" /\ link_type.id # 0
    THEN SpellUrl \o Digits(link_type.id)
    ELSE IF link_type.kind = "Achievement" /\ link_type.id # 0
    THEN AchievementUrl \o Digits(link_type.id)
    ELSE IF link_type.kind = "Quest" /\ link_type.id # 0
    THEN QuestUrl \o Digits(link_type.id)
    ELSE IF link_type.kind = "Trade" /\ link_type.id # 0
    THEN TradeUrl \o Digits(link_type.id)
    ELSE SearchUrl \o url_encode(display_name)

\* Display names have at most MaxName characters.
MaxName == 2

NameChars == {"A", "z", "0", "9", "-", "_", ".", "~", " ", "%", "+", "&", "U2", "U4"}

UnknownItem ==
    <<"U", "n", "k", "n", "o", "w", "n", " ", "I", "t", "e", "m">>

LinkNamesIn == UNION {[1 .. n -> NameChars] : n \in 0 .. MaxName} \cup {UnknownItem}

LinkTypesIn ==
    { [kind |-> k, id |-> n] :
        k \in {"Item", "Spell", "Achievement", "Quest", "Trade"},
        n \in {0, 1, 19019} } \cup {OtherLink}

LinkInit ==
    /\ ReaderIdle
    /\ nextId = 1
    /\ DecoderIdle /\ ParserIdle /\ TranslateIdle /\ ThreadsIdle
    /\ ExtractIdle /\ MemoryIdle /\ ScanIdle /\ RestIdle
    /\ url_in \in [link_type : LinkTypesIn, display_name : LinkNamesIn]
    /\ url_ret = NoCall

\* main.rs:1864: the URL of a link segment.
WowheadUrl ==
    /\ ~url_ret.called
    /\ url_ret' = [called |-> TRUE,
                   url |-> wowhead_url(url_in.link_type, url_in.display_name)]
    /\ UNCHANGED url_in
    /\ UNCHANGED <<readerVars, nextId, decoderVars, parserVars, translateVars,
                   threadVars, extractVars, memoryVars, scanVars,
                   restVars>>

LinkNext == WowheadUrl

LinkSpec == LinkInit /\ [][LinkNext]_vars

(***************************************************************************)
(* The two extractors on formatted texts put together from fragments.      *)
(***************************************************************************)

\* A formatted text has at most MaxFrags fragments.
MaxFrags == 3

\* A complete, an empty and an unterminated player tag; a complete, an
\* empty and an unterminated player link; a complete and an empty channel
\* tag; a complete and an empty channel link; other text.
Fragments ==
    { <<"P", "l", "a", "y", "e", "r", " ", "N", "a", "m", "e", ":", " ",
        "[", "B", "]">>,
      <<"P", "l", "a", "y", "e", "r", " ", "N", "a", "m", "e", ":", " ",
        "[", "]">>,
      <<"P", "l", "a", "y", "e", "r", " ", "N", "a", "m", "e", ":", " ",
        "[", "B">>,
      <<"|", "H", "p", "l", "a", "y", "e", "r", ":", "A", "|", "h">>,
      <<"|", "H", "p", "l", "a", "y", "e", "r", ":", "|", "h">>,
      <<"|", "H", "p", "l", "a", "y", "e", "r", ":", "A">>,
      <<"C", "h", "a", "n", "n", "e", "l", ":", " ", "[", "G", "]">>,
      <<"C", "h", "a", "n", "n", "e", "l", ":", " ", "[", "]">>,
      <<"|", "H", "c", "h", "a", "n", "n", "e", "l", ":", "2", "|", "h",
        "[", "G", "]", "|", "h">>,
      <<"|", "H", "c", "h", "a", "n", "n", "e", "l", ":", "2", "|", "h",
        "[", "]", "|", "h">>,
      <<"x", "]">> }

RECURSIVE JoinFragments(_)
JoinFragments(fs) ==
    IF fs = <<>> THEN <<>> ELSE Head(fs) \o JoinFragments(Tail(fs))

FormattedTexts ==
    {JoinFragments(fs) : fs \in UNION {[1 .. n -> Fragments] : n \in 0 .. MaxFrags}}

ChannelNumbers == {0, 42}

ExtractInit ==
    /\ ReaderIdle
    /\ nextId = 1
    /\ DecoderIdle /\ ParserIdle /\ TranslateIdle /\ ThreadsIdle
    /\ LinkIdle /\ MemoryIdle /\ ScanIdle /\ RestIdle
    /\ ex_in \in [formatted : FormattedTexts, channel_number : ChannelNumbers]
    /\ ex_ret = NoCall

\* Lines 251-252 of from_raw_bytes.
ExtractNames ==
    /\ ~ex_ret.called
    /\ ex_ret' = [called |-> TRUE,
                  sender_name |-> extract_sender_name(ex_in.formatted),
                  channel_name |->
                      extract_channel_name(ex_in.formatted, ex_in.channel_number)]
    /\ UNCHANGED ex_in
    /\ UNCHANGED <<readerVars, nextId, decoderVars, parserVars, translateVars,
                   threadVars, linkVars, memoryVars, scanVars,
                   restVars>>

ExtractNext == ExtractNames

ExtractSpec == ExtractInit /\ [][ExtractNext]_vars

(***************************************************************************)
(* The memory readers of memory.rs: LinuxMemoryReader, which holds the     *)
(* open /proc/<pid>/mem file, and WindowsMemoryReader, which holds the     *)
(* process handle.  The OS side is the set of handles the reader has       *)
(* opened and not closed.                                                  *)
(***************************************************************************)

\* At most MaxOpens handles are opened in a run.
MaxOpens == 2

\* read_memory is called for at most MaxRead bytes.
MaxRead == 2

ReadAddrs == {0, 7}

\* The byte of the target process at an address; none of them is zero.
MemoryAt(a) == (a % 3) + 1

\* What the OS answers to a read of size bytes: the number of bytes it
\* delivered, or ReadError for an error (of try_clone, seek or read, or of
\* ReadProcessMemory).
ReadError == 0 - 1

ReadOutcomes(size) == {ReadError} \cup (0 .. size)

\* What the OS answers when the handle is closed: dropping a File reports
\* nothing; CloseHandle reports success or failure.
CloseOutcomes(p) == IF p = "windows" THEN {"ok", "err"} ELSE {"ok"}

is_attached == handle # None

\* A detach that leaves the field as it is.
KeepHandle(h) == h

\* Option::take on the field: what is left in it.
TakeHandle(h) == None

\* A close that leaves the handle open.
CloseNothing(open, h) == open

\* Dropping the File, or CloseHandle: the handle is open no more.  When
\* CloseHandle reports failure the handle was not valid, so it is not open
\* either.
CloseHandle(open, h) == open \ {h}

\* detach on field h: the field and the open handles after it, and what it
\* returns.
detach(h, open, close) ==
    IF h # None
    THEN [handle |-> TakeHandle(h), open |-> CloseHandle(open, h[1]),
          ret |-> IF close = "ok" THEN "Ok" ELSE "Err"]
    ELSE [handle |-> h, open |-> open, ret |-> "Ok"]

\* buffer.truncate(bytes_read) left out.
NoTruncate(buffer, n) == buffer

\* Vec::truncate
Truncate(buffer, n) == SubSeq(buffer, 1, n)

\* vec![0u8; size] after the OS has written k bytes from address into it.
Filled(address, size, k) ==
    [j \in 1 .. size |-> IF j <= k THEN MemoryAt(address + j - 1) ELSE 0]

MemoryInit ==
    /\ ReaderIdle
    /\ nextId = 1
    /\ DecoderIdle /\ ParserIdle /\ TranslateIdle /\ ThreadsIdle
    /\ LinkIdle /\ ExtractIdle /\ ScanIdle /\ RestIdle
    /\ platform \in {"linux", "windows"}
    /\ handle = None
    /\ os = [open |-> {}, opened |-> 0]
    /\ mem_call = [op |-> "new"]

MemoryUnchanged ==
    UNCHANGED <<readerVars, nextId, decoderVars, parserVars, translateVars,
                threadVars, linkVars, extractVars, scanVars,
                   restVars>>

\* attach on field h with the OS side o: self.detach()?, then the open;
\* opened tells whether the OS grants it.  The field and the OS side after
\* it, what it returns, and the largest number of handles open at a time
\* during the call.
attach(h, o, close, opened) ==
    LET d == detach(h, o.open, close)
        n == o.opened + 1
    IN  IF d.ret # "Ok" \/ ~opened
        THEN [handle |-> d.handle, os |-> [o EXCEPT !.open = d.open],
              ret |-> "Err", peak |-> Cardinality(o.open)]
        ELSE [handle |-> Some(n), os |-> [open |-> d.open \cup {n}, opened |-> n],
              ret |-> "Ok",
              peak |-> IF Cardinality(o.open) > Cardinality(d.open) + 1
                       THEN Cardinality(o.open)
                       ELSE Cardinality(d.open) + 1]

Attach(close, opened) ==
    /\ mem_call.op # "drop"
    /\ os.opened < MaxOpens
    /\ LET a == attach(handle, os, close, opened)
       IN  /\ handle' = a.handle
           /\ os' = a.os
           /\ mem_call' = [op |-> "attach", ret |-> a.ret,
                           was_attached |-> is_attached, peak |-> a.peak]
    /\ UNCHANGED platform
    /\ MemoryUnchanged

Detach(close) ==
    /\ mem_call.op # "drop"
    /\ LET d == detach(handle, os.open, close)
       IN  /\ handle' = d.handle
           /\ os' = [os EXCEPT !.open = d.open]
           /\ mem_call' = [op |-> "detach", ret |-> d.ret,
                           was_attached |-> is_attached,
                           peak |-> Cardinality(os.open)]
    /\ UNCHANGED platform
    /\ MemoryUnchanged

\* read_memory(address, size) when the OS answers outcome.
ReadMemory(address, size, outcome) ==
    /\ mem_call.op # "drop"
    /\ mem_call' =
           IF ~is_attached
           THEN [op |-> "read", ret |-> "NotConnected", was_attached |-> FALSE,
                 address |-> address, size |-> size, outcome |-> outcome,
                 peak |-> Cardinality(os.open)]
           ELSE IF outcome = ReadError
           THEN [op |-> "read", ret |-> "Err", was_attached |-> TRUE,
                 address |-> address, size |-> size, outcome |-> outcome,
                 peak |-> Cardinality(os.open)]
           ELSE [op |-> "read", ret |-> "Ok", was_attached |-> TRUE,
                 address |-> address, size |-> size, outcome |-> outcome,
                 data |-> Truncate(Filled(address, size, outcome), outcome),
                 peak |-> Cardinality(os.open)]
    /\ UNCHANGED <<platform, handle, os>>
    /\ MemoryUnchanged

\* The reader goes out of scope: Drop calls detach and ignores its result;
\* dropping the File closes it.
DropReader(close) ==
    /\ mem_call.op # "drop"
    /\ LET d == detach(handle, os.open, close)
       IN  /\ handle' = d.handle
           /\ os' = [os EXCEPT !.open = d.open]
           /\ mem_call' = [op |-> "drop", ret |-> "Ok",
                           was_attached |-> is_attached,
                           peak |-> Cardinality(os.open)]
    /\ UNCHANGED platform
    /\ MemoryUnchanged

MemoryNext ==
    \/ \E close \in CloseOutcomes(platform) : \E opened \in BOOLEAN :
           Attach(close, opened)
    \/ \E close \in CloseOutcomes(platform) : Detach(close)
    \/ \E address \in ReadAddrs : \E size \in 0 .. MaxRead :
           \E outcome \in ReadOutcomes(size) : ReadMemory(address, size, outcome)
    \/ \E close \in CloseOutcomes(platform) : DropReader(close)

MemorySpec == MemoryInit /\ [][MemoryNext]_vars

(***************************************************************************)
(* WindowsMemoryReader::scan_for_bytes.  The target's address space from   *)
(* the scan's first address on is a sequence of regions, as VirtualQueryEx *)
(* reports them one after the other; sizes are scaled down: CHUNK (4 MiB)  *)
(* to Chunk bytes, max_results (1000) to MaxResults, max_address to        *)
(* MaxAddress.  Needles are no longer than a chunk.                        *)
(***************************************************************************)

\* let mut address: usize = 0x10000
ScanStart == 65536

\* A region has at most MaxRegion bytes.
MaxRegion == 4

\* const CHUNK, scaled.
Chunk == 2

\* max_results, scaled.
MaxResults == 3

\* max_address, scaled: the end of two regions of the largest size.
MaxAddress == ScanStart + 2 * MaxRegion

PAGE_NOACCESS == 1

PAGE_READWRITE == 4

PAGE_GUARD == 256

\* p & bit for a single-bit mask.
HasBit(p, bit) == (p \div bit) % 2 = 1

\* Lines 133-136: committed, and readable without a guard.
IsScanned(region) ==
    /\ region.state = "MEM_COMMIT"
    /\ region.protect # 0
    /\ ~HasBit(region.protect, PAGE_NOACCESS)
    /\ ~HasBit(region.protect, PAGE_GUARD)

\* How every read_memory of a scan ends: with all the bytes asked for, with
\* one byte less, or with an error.
ReadBehaviours == {"full", "short", "fail"}

\* read_memory(base + off, read_size) on a region with these bytes: None
\* for Err, Some(data) for Ok(data).
ChunkRead(bytes, off, read_size, behaviour) ==
    IF behaviour = "fail" THEN None
    ELSE IF behaviour = "short" THEN Some(SubSeq(bytes, off + 1, off + read_size - 1))
    ELSE Some(SubSeq(bytes, off + 1, off + read_size))

\* A ceiling that is never reached.
NeverReached(results) == FALSE

\* results.len() >= max_results
CeilingReached(results) == Len(results) >= MaxResults

\* The while loop over i of lines 143-153.
RECURSIVE SearchChunk(_, _, _, _, _)
SearchChunk(data, needle, read_addr, i, results) ==
    IF ~(i <= Len(data) - Len(needle)) THEN results
    ELSE IF SubSeq(data, i + 1, i + Len(needle)) = needle
    THEN LET pushed == Append(results, read_addr + i)
         IN  IF CeilingReached(pushed) THEN pushed
             ELSE SearchChunk(data, needle, read_addr, i + 1, pushed)
    ELSE SearchChunk(data, needle, read_addr, i + 1, results)

\* Chunks that follow one another without overlap.
AdvanceNoOverlap(off, needle, size) == off + Chunk

\* Lines 158-162: the offset of the next chunk.
Advance(off, needle, size) ==
    IF Len(needle) > 1 /\ off + Chunk < size
    THEN off + (Chunk - (Len(needle) - 1))
    ELSE off + Chunk

\* The while loop over off of lines 138-163, with acc = [results, reads];
\* reads lists every read_memory call with the number of results held when
\* it was made.
RECURSIVE ScanRegion(_, _, _, _, _, _)
ScanRegion(base, region, needle, behaviour, off, acc) ==
    LET size == Len(region.bytes) IN
    IF ~(off < size /\ ~CeilingReached(acc.results)) THEN acc
    ELSE LET read_size == Min(Chunk, size - off)
             read_addr == base + off
             data == ChunkRead(region.bytes, off, read_size, behaviour)
             found == IF data # None /\ Len(data[1]) >= Len(needle)
                      THEN SearchChunk(data[1], needle, read_addr, 0, acc.results)
                      ELSE acc.results
         IN  ScanRegion(base, region, needle, behaviour,
                        Advance(off, needle, size),
                        [results |-> found,
                         reads |-> Append(acc.reads,
                                          [address |-> read_addr, size |-> read_size,
                                           held |-> Len(acc.results)])])

\* The while loop over address of lines 110-169; k is the region
\* VirtualQueryEx reports for address, none when k is past the last one.
\* Regions are not empty and end below the top of the address space, so
\* next is above base.
RECURSIVE ScanRegions(_, _, _, _, _, _)
ScanRegions(regions, needle, behaviour, k, address, acc) ==
    IF ~(address < MaxAddress /\ ~CeilingReached(acc.results)) THEN acc
    ELSE IF k > Len(regions) THEN acc
    ELSE LET base == address
             next == base + Len(regions[k].bytes)
         IN  ScanRegions(regions, needle, behaviour, k + 1, next,
                         IF IsScanned(regions[k])
                         THEN ScanRegion(base, regions[k], needle, behaviour, 0, acc)
                         ELSE acc)

scan_for_bytes(h, regions, needle, behaviour) ==
    IF h = None THEN [ret |-> "NotConnected", results |-> <<>>, reads |-> <<>>]
    ELSE IF needle = <<>> THEN [ret |-> "Ok", results |-> <<>>, reads |-> <<>>]
    ELSE LET acc == ScanRegions(regions, needle, behaviour, 1, ScanStart,
                                [results |-> <<>>, reads |-> <<>>])
         IN  [ret |-> "Ok", results |-> acc.results, reads |-> acc.reads]

\* The contents of a scanned region: one to MaxRegion bytes of two values.
RegionBytes == UNION {[1 .. n -> {1, 2}] : n \in 1 .. MaxRegion}

\* Scanned regions of every content, and regions that are skipped: not
\* committed, without protection flags, PAGE_NOACCESS and guarded.
Regions ==
    { [state |-> "MEM_COMMIT", protect |-> PAGE_READWRITE, bytes |-> b] :
        b \in RegionBytes }
    \cup { [state |-> "MEM_RESERVE", protect |-> 0, bytes |-> <<1, 1>>],
           [state |-> "MEM_COMMIT", protect |-> 0, bytes |-> <<1, 1>>],
           [state |-> "MEM_COMMIT", protect |-> PAGE_NOACCESS, bytes |-> <<1, 1>>],
           [state |-> "MEM_COMMIT", protect |-> PAGE_READWRITE + PAGE_GUARD,
            bytes |-> <<1, 1>>] }

Layouts == UNION {[1 .. n -> Regions] : n \in 1 .. 2}

Needles == {<<>>, <<1>>, <<1, 1>>, <<1, 2>>}

ScanInit ==
    /\ ReaderIdle
    /\ nextId = 1
    /\ DecoderIdle /\ ParserIdle /\ TranslateIdle /\ ThreadsIdle
    /\ LinkIdle /\ ExtractIdle /\ RestIdle
    /\ platform = "windows"
    /\ \/ handle = None /\ os = [open |-> {}, opened |-> 0]
       \/ handle = Some(1) /\ os = [open |-> {1}, opened |-> 1]
    /\ mem_call = [op |-> "new"]
    /\ scan_in \in [regions : Layouts, needle : Needles, behaviour : ReadBehaviours]
    /\ scan_ret = NoCall

\* main.rs:1134: one scan of the target.
Scan ==
    /\ ~scan_ret.called
    /\ LET r == scan_for_bytes(handle, scan_in.regions, scan_in.needle,
                               scan_in.behaviour)
       IN  scan_ret' = [called |-> TRUE, ret |-> r.ret, results |-> r.results,
                        reads |-> r.reads]
    /\ UNCHANGED scan_in
    /\ UNCHANGED <<readerVars, nextId, decoderVars, parserVars, translateVars,
                   threadVars, linkVars, extractVars, memoryVars,
                   restVars>>

ScanNext == Scan

ScanSpec == ScanInit /\ [][ScanNext]_vars

(***************************************************************************)
(* Properties of ChatReader::poll and ChatReader::reset.                   *)
(***************************************************************************)

FullPoll == op = "poll" /\ rd.kind = "full" /\ ret = "Ok"

\* The slots the messages of the last poll came from, in order.
MsgSlots == [k \in 1 .. Len(new_messages) |-> new_messages[k].slot]

\* The number of messages of the last poll that came from slot i.
MsgCount(i) == Cardinality({k \in 1 .. Len(new_messages) : new_messages[k].slot = i})

\* Slot img decodes to a message: one of its text fields is non-empty once
\* the plain text is stripped of markup.
HasText(img) == img.formatted # <<>> \/ strip_wow_formatting(img.plain) # <<>>

\* C1 as stated: the first full poll after construction or reset returns
\* exactly one message per slot whose bytes are not all zero.
C1_FirstPollOnePerNonzeroSlot ==
    (FullPoll /\ is_first) =>
        /\ Len(new_messages) =
               Cardinality({i \in Slots : SlotOf(lastFull, i) # ZeroSlot})
        /\ \A i \in Slots :
               MsgCount(i) = IF SlotOf(lastFull, i) # ZeroSlot THEN 1 ELSE 0

\* C1 amended: the first full poll after construction or reset returns
\* exactly one message per slot whose first 16 bytes are not all zero and
\* which has a non-empty text field (formatted, or plain after stripping),
\* and no message for any other slot.
C1_FirstPollOnePerDecodableSlot ==
    (FullPoll /\ is_first) =>
        LET live == {i \in Slots : /\ Fingerprint(SlotOf(lastFull, i)) # ZeroFp
                                   /\ HasText(SlotOf(lastFull, i))}
        IN  /\ Len(new_messages) = Cardinality(live)
            /\ \A i \in Slots : MsgCount(i) = IF i \in live THEN 1 ELSE 0

\* A first poll that follows a reset (identifiers were handed out before
\* it) and returns one message although two slots are not all zero.
C1_Witness ==
    /\ FullPoll /\ is_first
    /\ nextId > Len(new_messages) + 1
    /\ Len(new_messages) = 1
    /\ \A i \in Slots : SlotOf(lastFull, i) # ZeroSlot

\* The decoded text content of a slot: its formatted text and its plain
\* text stripped of markup.
Content(img) == <<img.formatted, strip_wow_formatting(img.plain)>>

\* C2 as stated: with no reset since the previous full poll, a slot whose
\* text content is non-empty and differs from what the previous full poll
\* read gets exactly one message in the later poll.
C2_EveryContentChangeReported ==
    [][(op' = "poll" /\ rd'.kind = "full" /\ lastFull # NoBuf) =>
          \A i \in Slots :
              (/\ Content(SlotOf(lastFull', i)) # <<<<>>, <<>>>>
               /\ Content(SlotOf(lastFull', i)) # Content(SlotOf(lastFull, i)))
              => Cardinality({k \in 1 .. Len(new_messages') :
                                 new_messages'[k].slot = i}) = 1]_vars

\* C3: a full poll that reads a buffer identical to the one the previous
\* full poll read, with no reset in between, returns no message and hands
\* out no identifier.
C3_IdenticalBufferNoMessages ==
    [][(op' = "poll" /\ rd'.kind = "full" /\ lastFull # NoBuf
        /\ lastFull' = lastFull)
       => (new_messages' = <<>> /\ decoded' = {} /\ nextId' = nextId)]_vars

\* A second full poll read the same bytes as the one before it, and those
\* bytes hold a slot that decodes to a message.
C3_Witness ==
    /\ FullPoll /\ rd.same /\ ~is_first
    /\ new_messages = <<>>
    /\ \E i \in Slots : /\ Fingerprint(SlotOf(lastFull, i)) # ZeroFp
                        /\ HasText(SlotOf(lastFull, i))

C5_SortedByOrderKey ==
    /\ \A k \in 1 .. Len(new_messages) :
           new_messages[k].key =
               IF new_messages[k].msg.timestamp # 0
               THEN new_messages[k].msg.timestamp
               ELSE new_messages[k].slot
    /\ \A a, b \in 1 .. Len(new_messages) :
           a < b => /\ new_messages[a].key <= new_messages[b].key
                    /\ new_messages[a].key = new_messages[b].key
                       => new_messages[a].slot < new_messages[b].slot

\* A poll returned two messages in the reverse of their slot order.
C5_Witness ==
    /\ FullPoll
    /\ Len(new_messages) = 2
    /\ new_messages[1].slot > new_messages[2].slot
    /\ new_messages[1].key < new_messages[2].key

\* C6: a slot whose fingerprint is all-zero in a full read yields no
\* message, is not decoded, and has an all-zero cached fingerprint after
\* the poll.
C6_ZeroFingerprintSkipped ==
    FullPoll =>
        \A i \in Slots :
            Fingerprint(SlotOf(lastFull, i)) = ZeroFp =>
                /\ i \notin decoded
                /\ MsgCount(i) = 0
                /\ fingerprints[i] = ZeroFp

\* A full poll read a slot with all-zero leading bytes but with text in it,
\* next to a slot it decoded.
C6_Witness ==
    /\ FullPoll
    /\ \E i \in Slots : /\ Fingerprint(SlotOf(lastFull, i)) = ZeroFp
                        /\ HasText(SlotOf(lastFull, i))
                        /\ i \notin decoded
    /\ decoded # {}

\* C7: a read shorter than slot count x stride makes poll return an empty
\* list and decode nothing, even with complete changed slots in the prefix.
C7_ShortReadEmptyResult ==
    (op = "poll" /\ rd.kind # "err" /\ rd.len < CHAT_BUFFER_SIZE * CHAT_MESSAGE_STRIDE)
        => (ret = "Ok" /\ new_messages = <<>> /\ decoded = {})

\* A short read whose prefix held a complete slot with a new fingerprint.
C7_Witness ==
    /\ op = "poll" /\ rd.kind = "short"
    /\ rd.len >= CHAT_MESSAGE_STRIDE
    /\ rd.prefixNew
    /\ ret = "Ok" /\ new_messages = <<>>

\* C8: a poll whose raw read is short or fails leaves the cached
\* fingerprints, the initialized flag and the identifier counter unchanged.
C8_FailedPollKeepsState ==
    [][(op' = "poll" /\ rd'.kind \in {"short", "err"}) =>
          UNCHANGED <<fingerprints, initialized, nextId, lastFull>>]_vars

\* A short read on a Steady reader with a non-empty cache, the prefix
\* holding a slot the cache does not know.
C8_Witness ==
    /\ op = "poll" /\ rd.kind = "short" /\ rd.prefixNew
    /\ initialized
    /\ \E i \in Slots : fingerprints[i] # ZeroFp

\* C9 as stated: a poll whose raw read fails yields an empty result, as a
\* short read does.
C9_ReadErrorYieldsEmptyResult ==
    (op = "poll" /\ rd.kind = "err") => (ret = "Ok" /\ new_messages = <<>>)

\* C9 amended: a poll whose raw read fails returns the error to its caller
\* (not an empty list); it produces no message and decodes no slot.
C9_ReadErrorIsReturned ==
    (op = "poll" /\ rd.kind = "err") =>
        (ret = "Err" /\ new_messages = <<>> /\ decoded = {})

\* A failed read on a reader that was Steady with a non-empty cache.
C9_Witness ==
    /\ op = "poll" /\ rd.kind = "err" /\ ret = "Err"
    /\ initialized
    /\ \E i \in Slots : fingerprints[i] # ZeroFp

\* C10: the reader is Uninitialized after construction and after reset; a
\* poll that returns leaves it Steady exactly if it was Steady before or its
\* raw read returned the full buffer.
C10_Lifecycle ==
    /\ ~initialized
    /\ [][/\ op' = "reset" => ~initialized'
          /\ (op' = "poll" /\ ret' # "panic") =>
                 (initialized' <=> (initialized \/ rd'.kind = "full"))]_vars

\* The first full poll returned no message and left the reader Steady.
C10_Witness ==
    /\ FullPoll /\ is_first
    /\ new_messages = <<>>
    /\ initialized

\* C11: between operations, while the reader is uninitialized every cached
\* fingerprint is all-zero, and reset leaves the reader in exactly the state
\* of a new reader: zero cache, flag clear.
C11_UninitializedCacheIsZero ==
    /\ (ret # "panic" /\ ~initialized) => fingerprints = ZeroFingerprints
    /\ op = "reset" => (fingerprints = ZeroFingerprints /\ initialized = FALSE)

\* A reset after polls that produced messages.
C11_Witness ==
    op = "reset" /\ nextId > 1 /\ fingerprints = ZeroFingerprints /\ ~initialized

(***************************************************************************)
(* Properties of ChatMessage::from_raw_bytes.                              *)
(***************************************************************************)

\* C12: for every slice shorter than the slot stride, whatever its content,
\* the decoder returns "no message" and the identifier counter stays as it
\* was.
C12_ShortSliceNoMessage ==
    (decode_data.called /\ decode_data.len < CHAT_MESSAGE_STRIDE) =>
        /\ decode_ret = NoMessage
        /\ nextId = decode_data.id

\* A slice one byte short of the stride whose content would decode to a
\* message, handed over after a message has been produced.
C12_Witness ==
    /\ decode_data.called
    /\ decode_data.len = CHAT_MESSAGE_STRIDE - 1
    /\ HasText(decode_data.img)
    /\ decode_data.id > 1
    /\ decode_ret = NoMessage

\* C13: a slice of full stride length whose formatted and plain text fields
\* both decode to the empty string decodes to "no message", whatever the
\* sender id and the numeric fields are.
C13_EmptyTextsNoMessage ==
    (/\ decode_data.called
     /\ decode_data.len >= CHAT_MESSAGE_STRIDE
     /\ read_cstring(decode_data.img.formatted) = <<>>
     /\ read_cstring(decode_data.img.plain) = <<>>) =>
        /\ decode_ret = NoMessage
        /\ nextId = decode_data.id

\* A full slot without texts whose sender id and numeric fields are all
\* nonzero.
C13_Witness ==
    /\ decode_data.called
    /\ decode_data.len = CHAT_MESSAGE_STRIDE
    /\ decode_data.img.formatted = <<>> /\ decode_data.img.plain = <<>>
    /\ decode_data.img.guid # 0 /\ decode_data.img.mtype # 0
    /\ decode_data.img.chan # 0 /\ decode_data.img.ts # 0
    /\ decode_ret = NoMessage

\* C14 as stated: for every slice of at least stride length, whatever its
\* content, the decoder completes with a message or "no message"; it never
\* panics.
C14_DecoderAlwaysCompletes ==
    (decode_data.called /\ decode_data.len >= CHAT_MESSAGE_STRIDE) =>
        ~decode_ret.panic

(***************************************************************************)
(* Properties of NEXT_MESSAGE_ID.                                          *)
(***************************************************************************)

\* C15: every identifier assigned is strictly greater than every identifier
\* assigned before it, also across a reader reset, and the identifiers held
\* or returned by concurrently decoding threads are pairwise distinct.
C15_IdsIncreaseAndDistinct ==
    /\ \A i, j \in 1 .. Len(issued) : i < j => issued[i] < issued[j]
    /\ \A i \in 1 .. Len(issued) : issued[i] < nextId
    /\ \A i, j \in 1 .. Len(produced) : i # j => produced[i] # produced[j]
    /\ \A t, u \in Threads :
           (t # u /\ pc[t] = "built" /\ pc[u] = "built") => fetched[t] # fetched[u]
    /\ \A t \in Threads : \A i \in 1 .. Len(produced) :
           pc[t] = "built" => fetched[t] # produced[i]

\* Two decodes overlapped and returned in the other order than they fetched,
\* a reset came in between, and a third identifier is being held.
C15_Witness ==
    /\ op = "reset"
    /\ Len(produced) >= 2 /\ produced[1] > produced[2]
    /\ \E t \in Threads : pc[t] = "built"

(***************************************************************************)
(* Properties of strip_wow_formatting and parse_text_segments.             *)
(***************************************************************************)

\* C16 as stated: for every input string the parser yields segments, and
\* the stripped text equals the concatenation, in order, of the text of each
\* plain run and the display name of each link.
C16_StripEqualsSegmentText ==
    parse_ret.called =>
        /\ ~parse_ret.segments.panic
        /\ parse_ret.text = ConcatText(parse_ret.segments.segs)

\* C17 as stated: stripping the example string yields "Hello Sword!".
C17_ExampleStripsToHelloSword ==
    (parse_ret.called /\ parse_raw = ExampleText) =>
        parse_ret.text = <<"H", "e", "l", "l", "o", " ", "S", "w", "o", "r", "d", "!">>

\* C18 as stated: parsing the example string yields the plain run "Hello ",
\* an item link with id 12345 and display name "Sword", and the plain
\* run "!".
C18_ExampleParsesToThreeSegments ==
    (parse_ret.called /\ parse_raw = ExampleText) =>
        /\ ~parse_ret.segments.panic
        /\ Len(parse_ret.segments.segs) = 3
        /\ parse_ret.segments.segs[1] = Plain(<<"H", "e", "l", "l", "o", " ">>)
        /\ parse_ret.segments.segs[2].kind = "WowLink"
        /\ parse_ret.segments.segs[2].link_type = [kind |-> "Item", id |-> 12345]
        /\ parse_ret.segments.segs[2].display_name = <<"S", "w", "o", "r", "d">>
        /\ parse_ret.segments.segs[3] = Plain(<<"!">>)

(***************************************************************************)
(* Properties of prepare_for_translation and restore_links.                *)
(***************************************************************************)

RECURSIVE Flatten(_)
Flatten(ss) == IF ss = <<>> THEN <<>> ELSE Head(ss) \o Flatten(Tail(ss))

IsLink(seg) == seg.kind = "WowLink"

\* The number of links among the first k segments.
LinkIdx(segs, k) == Cardinality({j \in 1 .. k : IsLink(segs[j])})

\* The display names of the links of segs, in order.
LinkNames(segs) ==
    LET links == SelectSeq(segs, IsLink)
    IN  [j \in 1 .. Len(links) |-> links[j].display_name]

\* No character of str is one of the two placeholder brackets.
NoPlaceholderChars(str) == \A j \in 1 .. Len(str) : str[j] \notin {"LB", "RB"}

C20_RoundTrip ==
    (/\ tr_ret.called
     /\ \A k \in 1 .. Len(tr_segments) :
            ~IsLink(tr_segments[k]) => NoPlaceholderChars(tr_segments[k].text)) =>
        tr_ret.restored =
            Flatten([k \in 1 .. Len(tr_segments) |->
                        IF IsLink(tr_segments[k])
                        THEN <<"[">> \o tr_segments[k].display_name \o <<"]">>
                        ELSE tr_segments[k].text])

(***************************************************************************)
(* Further properties of ChatReader::poll.                                 *)
(***************************************************************************)

\* C30: after every poll that got the full buffer and returned, the cached
\* fingerprint of every slot is the fingerprint of that slot in the buffer
\* just read, whatever happened to the slot.
C30_CacheMatchesBuffer ==
    FullPoll => \A i \in Slots : fingerprints[i] = Fingerprint(SlotOf(lastFull, i))

\* A Steady poll in which one slot decoded to "no message", and another
\* slot was all-zero.
C30_Witness ==
    /\ FullPoll /\ ~is_first
    /\ \E i \in decoded : MsgCount(i) = 0
    /\ \E j \in Slots : Fingerprint(SlotOf(lastFull, j)) = ZeroFp
    /\ \A i \in Slots : fingerprints[i] = Fingerprint(SlotOf(lastFull, i))



(***************************************************************************)
(* Properties of ChatMessageType::from_u32.                                *)
(***************************************************************************)

\* Codes the mapping is compared on: every named code, the two after them,
\* an arbitrary one and the largest one the model can hold.
CategoryCodes == (0 .. 30) \cup {999, 2147483647}

\* C24: codes 0 .. 28 map to their fixed categories and every other code c
\* to Unknown(c); two different codes never map to the same category, and a
\* decoded slot yields a message with the category of its code whatever the
\* code is.
C24_CategoryMapping ==
    /\ from_u32(0) = [kind |-> "Addon"] /\ from_u32(1) = [kind |-> "Say"]
    /\ from_u32(7) = [kind |-> "Whisper"] /\ from_u32(17) = [kind |-> "Channel"]
    /\ from_u32(28) = [kind |-> "System"]
    /\ \A c \in CategoryCodes :
           IF c <= 28 THEN from_u32(c).kind # "Unknown"
           ELSE from_u32(c) = [kind |-> "Unknown", code |-> c]
    /\ \A c, d \in CategoryCodes : c # d => from_u32(c) # from_u32(d)
    /\ (decode_data.called /\ decode_data.len >= CHAT_MESSAGE_STRIDE
         /\ ~decode_ret.panic /\ HasText(decode_data.img)) =>
           /\ decode_ret.some
           /\ \A c \in CategoryCodes :
                  decode_ret.msg.message_type = from_u32(c) <=> c = decode_data.img.mtype

\* A slot with an unnamed category code was decoded to a message.
C24_Witness ==
    /\ decode_data.called /\ decode_data.img.mtype = 999
    /\ decode_ret.some
    /\ decode_ret.msg.message_type = [kind |-> "Unknown", code |-> 999]

(***************************************************************************)
(* Properties of wowhead_url.                                              *)
(***************************************************************************)

StartsWith(s, p) == Len(s) >= Len(p) /\ SubSeq(s, 1, Len(p)) = p

\* The characters a query keeps as they are.
UnreservedChars ==
    {"A", "B", "C", "D", "E", "F", "G", "H", "I", "J", "K", "L", "M",
     "N", "O", "P", "Q", "R", "S", "T", "U", "V", "W", "X", "Y", "Z",
     "a", "b", "c", "d", "e", "f", "g", "h", "i", "j", "k", "l", "m",
     "n", "o", "p", "q", "r", "s", "t", "u", "v", "w", "x", "y", "z",
     "0", "1", "2", "3", "4", "5", "6", "7", "8", "9", "-", "_", ".", "~"}

UpperHexChars == {UpperHex[k] : k \in 1 .. 16}

\* The bytes a query stands for, when it is written with "+" for a space,
\* unreserved characters for themselves and %XX in uppercase hex for every
\* other byte and for no byte else; <<-1>> when it is not written so.
RECURSIVE PctDecode(_)
PctDecode(q) ==
    IF q = <<>> THEN <<>>
    ELSE IF q[1] = "+" THEN <<32>> \o PctDecode(Tail(q))
    ELSE IF q[1] \in UnreservedChars THEN <<AsciiCode(q[1])>> \o PctDecode(Tail(q))
    ELSE IF q[1] = "%" /\ Len(q) >= 3 /\ q[2] \in UpperHexChars /\ q[3] \in UpperHexChars
    THEN LET b == 16 * HexVal(q[2]) + HexVal(q[3])
         IN  IF b = 32 \/ \E c \in UnreservedChars : AsciiCode(c) = b THEN <<-1>>
             ELSE <<b>> \o PctDecode(SubSeq(q, 4, Len(q)))
    ELSE <<-1>>

\* C21: wowhead_url returns the direct URL of the reference for a known
\* reference type with a nonzero id, and otherwise (id 0 or type Other) the
\* search URL followed by the display name percent-encoded byte by byte:
\* "+" for a space, unreserved characters unchanged, %XX in uppercase hex
\* for every other byte.
C21_DirectOrSearchUrl ==
    url_ret.called =>
        LET lt == url_in.link_type
            url == url_ret.url
        IN  IF lt.kind # "Other" /\ lt.id > 0
            THEN /\ ~StartsWith(url, SearchUrl)
                 /\ lt.kind = "Item" => url = ItemUrl \o Digits(lt.id)
                 /\ lt.kind = "Spell" => url = SpellUrl \o Digits(lt.id)
                 /\ lt.kind = "Achievement" => url = AchievementUrl \o Digits(lt.id)
                 /\ lt.kind = "Quest" => url = QuestUrl \o Digits(lt.id)
                 /\ lt.kind = "Trade" => url = TradeUrl \o Digits(lt.id)
            ELSE /\ StartsWith(url, SearchUrl)
                 /\ PctDecode(SubSeq(url, Len(SearchUrl) + 1, Len(url)))
                        = Bytes(url_in.display_name)

\* A spell reference with id 0 whose name is a space and a two-byte
\* character got the search URL with "+%C3%A9" as its query.
C21_Witness ==
    /\ url_ret.called
    /\ url_in.link_type = [kind |-> "Spell", id |-> 0]
    /\ url_in.display_name = <<" ", "U2">>
    /\ url_ret.url = SearchUrl \o <<"+", "%", "C", "3", "%", "A", "9">>

(***************************************************************************)
(* Properties of extract_sender_name and extract_channel_name.             *)
(***************************************************************************)

\* pat stands in s at position i.
Occurs(s, pat, i) ==
    i + Len(pat) - 1 <= Len(s) /\ SubSeq(s, i, i + Len(pat) - 1) = pat

\* The non-empty names that stand in s between opener and closer, free of
\* closer themselves.
NamesBetween(s, opener, closer) ==
    UNION { { SubSeq(s, i + Len(opener), k - 1) :
                k \in { k \in i + Len(opener) + 1 .. Len(s) :
                          /\ Occurs(s, closer, k)
                          /\ Find(SubSeq(s, i + Len(opener), k - 1), closer, 1) = 0 } } :
            i \in {i \in 1 .. Len(s) : Occurs(s, opener, i)} }

\* The names of the `Player Name: [NAME]` tags and of the `|Hplayer:NAME|h`
\* hyperlinks of s.
PlayerTagNames(s) == NamesBetween(s, PlayerTag, <<"]">>)

PlayerLinkNames(s) == NamesBetween(s, PlayerLink, <<"|", "h">>)

\* The names of the `Channel: [NAME]` tags of s, and those of its
\* `|Hchannel:...|h[NAME]` hyperlinks.
ChannelTagNames(s) == NamesBetween(s, ChannelTag, <<"]">>)

ChannelLinkNames(s) ==
    UNION { NamesBetween(SubSeq(s, i, Len(s)), LinkText, <<"]">>) :
              i \in {i \in 1 .. Len(s) : Occurs(s, ChannelLink, i)} }

\* C22 as stated: the sender name is the name of a player tag whenever the
\* text has one with a non-empty name, also when it has a player hyperlink;
\* otherwise the name of a player hyperlink when it has one with a non-empty
\* name; otherwise the empty string.
C22_SenderFromTagThenLink ==
    ex_ret.called =>
        LET s == ex_in.formatted
        IN  IF PlayerTagNames(s) # {} THEN ex_ret.sender_name \in PlayerTagNames(s)
            ELSE IF PlayerLinkNames(s) # {}
            THEN ex_ret.sender_name \in PlayerLinkNames(s)
            ELSE ex_ret.sender_name = <<>>

\* C23 as stated: when neither a channel tag nor a channel hyperlink matches,
\* the channel name is the decimal string of the channel number, whatever
\* the number is.
C23_FallbackIsNumber ==
    (/\ ex_ret.called
     /\ ChannelTagNames(ex_in.formatted) = {}
     /\ ChannelLinkNames(ex_in.formatted) = {}) =>
        ex_ret.channel_name = Digits(ex_in.channel_number)

\* C23 amended: when neither a channel tag nor a channel hyperlink matches,
\* the channel name is the decimal string of the channel number when that
\* is not zero, and the empty string when it is zero.
C23_FallbackIsNonzeroNumber ==
    (/\ ex_ret.called
     /\ ChannelTagNames(ex_in.formatted) = {}
     /\ ChannelLinkNames(ex_in.formatted) = {}) =>
        IF ex_in.channel_number = 0 THEN ex_ret.channel_name = <<>>
        ELSE ex_ret.channel_name = Digits(ex_in.channel_number)

\* A text with an empty channel tag and an empty channel hyperlink, on
\* channel number 0 and on another one.
C23_Witness ==
    /\ ex_ret.called
    /\ ex_in.channel_number = 0
    /\ Find(ex_in.formatted, ChannelTag, 1) # 0
    /\ Find(ex_in.formatted, ChannelLink, 1) # 0
    /\ ex_ret.channel_name = <<>>

(***************************************************************************)
(* Properties of the memory readers.                                       *)
(***************************************************************************)

\* C25: after any detach call returns, with success or not, the reader is
\* not attached; a detach on a reader that is not attached returns success
\* and changes nothing, so consecutive detach calls have the effect of one.
C25_DetachIdempotent ==
    [][mem_call'.op = "detach" =>
          /\ handle' = None
          /\ handle = None =>
                /\ mem_call'.ret = "Ok"
                /\ os' = os
          /\ mem_call.op = "detach" =>
                /\ mem_call'.ret = "Ok"
                /\ handle' = handle /\ os' = os]_vars

\* A detach on a reader detached by the call before, after an attach.
C25_Witness ==
    /\ mem_call.op = "detach" /\ ~mem_call.was_attached
    /\ mem_call.ret = "Ok"
    /\ os.opened > 0
    /\ ~is_attached

\* C26: read_memory on a reader that is not attached fails with the
\* not-connected error whatever the address and the size; on an attached
\* reader, when the OS delivers k <= size bytes without an error, it
\* succeeds with exactly those k bytes, also for k < size and k = 0.
C26_ReadResult ==
    mem_call.op = "read" =>
        /\ ~mem_call.was_attached => mem_call.ret = "NotConnected"
        /\ (mem_call.was_attached /\ mem_call.outcome # ReadError) =>
              /\ mem_call.ret = "Ok"
              /\ Len(mem_call.data) = mem_call.outcome
              /\ \A j \in 1 .. mem_call.outcome :
                     mem_call.data[j] = MemoryAt(mem_call.address + j - 1)

\* A read of two bytes that delivered one.
C26_Witness ==
    /\ mem_call.op = "read" /\ mem_call.was_attached
    /\ mem_call.size = 2 /\ mem_call.outcome = 1
    /\ mem_call.ret = "Ok"
    /\ mem_call.data = <<MemoryAt(mem_call.address)>>

RECURSIVE RegionBase(_)
RegionBase(k) ==
    IF k = 1 THEN ScanStart
    ELSE RegionBase(k - 1) + Len(scan_in.regions[k - 1].bytes)

\* The addresses at which the needle stands inside one committed readable
\* region of the scanned layout.
Occurrences ==
    UNION { { RegionBase(k) + i - 1 :
                i \in { i \in 1 .. Len(scan_in.regions[k].bytes) :
                          Occurs(scan_in.regions[k].bytes, scan_in.needle, i) } } :
            k \in { k \in 1 .. Len(scan_in.regions) : IsScanned(scan_in.regions[k]) } }

\* C28: a scan returns at most the result ceiling of addresses, whatever
\* the memory and the needle are, and makes no read once the ceiling is
\* reached.
C28_ResultCeiling ==
    scan_ret.called =>
        /\ Len(scan_ret.results) <= MaxResults
        /\ \A r \in 1 .. Len(scan_ret.reads) : scan_ret.reads[r].held < MaxResults

\* The ceiling was reached in the first of two scanned regions, with more
\* occurrences left: the second region was not read.
C28_Witness ==
    /\ scan_ret.called
    /\ Len(scan_ret.results) = MaxResults
    /\ Cardinality(Occurrences) > MaxResults
    /\ Len(scan_in.regions) = 2 /\ IsScanned(scan_in.regions[2])
    /\ \A r \in 1 .. Len(scan_ret.reads) : scan_ret.reads[r].address < RegionBase(2)

\* C29: when the ceiling is not reached and every read returns its full
\* length, the scan reports every address at which the needle stands inside
\* a committed readable region, also across a chunk boundary, and each
\* address once.
C29_EveryOccurrenceOnce ==
    (/\ scan_ret.called /\ scan_ret.ret = "Ok"
     /\ scan_in.needle # <<>>
     /\ scan_in.behaviour = "full"
     /\ Len(scan_ret.results) < MaxResults) =>
        /\ {scan_ret.results[j] : j \in 1 .. Len(scan_ret.results)} = Occurrences
        /\ Len(scan_ret.results) = Cardinality(Occurrences)

\* Two occurrences of a two-byte needle were reported, one of them lying
\* across the boundary of the first chunk of its region.
C29_Witness ==
    /\ scan_ret.called /\ scan_in.behaviour = "full"
    /\ Len(scan_in.needle) = 2
    /\ Len(scan_ret.results) = 2 /\ Len(scan_ret.results) < MaxResults
    /\ \E j \in 1 .. 2 : \E k \in 1 .. Len(scan_in.regions) :
           scan_ret.results[j] = RegionBase(k) + Chunk - 1
    /\ {scan_ret.results[j] : j \in 1 .. 2} = Occurrences

(***************************************************************************)
(* Further properties of ChatMessage::from_raw_bytes.                      *)
(***************************************************************************)

\* C31 as stated: on a slice of at least stride length the decoder returns
\* a message whenever one of the two text fields decodes to a non-empty
\* string (the formatted text, or the plain text once stripped of markup),
\* and "no message" only when both decode to empty strings.
C31_MessageIffSomeText ==
    (decode_data.called /\ decode_data.len >= CHAT_MESSAGE_STRIDE) =>
        LET formatted == read_cstring(decode_data.img.formatted)
            text == strip_wow_formatting(read_cstring(decode_data.img.plain))
        IN  /\ (formatted # <<>> \/ text # <<>>) => decode_ret.some
            /\ (formatted = <<>> /\ text = <<>>) => decode_ret = NoMessage

(***************************************************************************)
(* parse_wow_link_type on its own: LinkTypeSpec applies it to link data    *)
(* made of a first token, a second token and further fields.               *)
(***************************************************************************)

Str_item == <<"i", "t", "e", "m">>
Str_spell == <<"s", "p", "e", "l", "l">>
Str_enchant == <<"e", "n", "c", "h", "a", "n", "t">>
Str_achievement == <<"a", "c", "h", "i", "e", "v", "e", "m", "e", "n", "t">>
Str_quest == <<"q", "u", "e", "s", "t">>
Str_trade == <<"t", "r", "a", "d", "e">>

\* First tokens: the six known ones, one in another case, the empty one and
\* two unknown ones.
LinkKinds ==
    {Str_item, Str_spell, Str_enchant, Str_achievement, Str_quest, Str_trade,
     <<"I", "t", "e", "m">>, <<>>, <<"p", "l", "a", "y", "e", "r">>,
     <<"i", "t", "e", "m", "s">>}

\* Second tokens: empty, numbers (with leading zeros, with a sign, at and
\* around 2^31 and 2^32), and strings that are no number.
LinkIds ==
    {<<>>, <<"0">>, <<"7">>, <<"1", "2", "3", "4", "5">>, <<"0", "0", "7">>,
     <<"+", "5">>, <<"-", "1">>, <<"-", "0">>, <<"+">>, <<"-">>,
     <<"a", "b", "c">>, <<"1", "a">>, <<" ", "5">>, <<"5", " ">>,
     <<"2", "1", "4", "7", "4", "8", "3", "6", "4", "7">>,
     <<"2", "1", "4", "7", "4", "8", "3", "6", "4", "8">>,
     <<"4", "2", "9", "4", "9", "6", "7", "2", "9", "5">>,
     <<"4", "2", "9", "4", "9", "6", "7", "2", "9", "6">>,
     <<"0", "4", "2", "9", "4", "9", "6", "7", "2", "9", "5">>,
     <<"9", "9", "9", "9", "9", "9", "9", "9", "9", "9", "9">>}

\* What follows the second token: nothing, or further fields.
LinkRests == {<<>>, <<":", "0", ":", "0">>, <<":">>}

\* "kind", or "kind:id" followed by the rest.
LinkDatas ==
    LinkKinds \cup
    {k \o <<":">> \o i \o r : k \in LinkKinds, i \in LinkIds, r \in LinkRests}

LinkTypeInit ==
    /\ ReaderIdle
    /\ nextId = 1
    /\ DecoderIdle /\ TranslateIdle /\ ThreadsIdle
    /\ OthersIdle
    /\ parse_raw \in LinkDatas
    /\ parse_ret = NoCall

\* Line 499: parse_wow_link_type applied to the link data.
ParseLinkType ==
    /\ ~parse_ret.called
    /\ parse_ret' = [called |-> TRUE, link_type |-> parse_wow_link_type(parse_raw)]
    /\ UNCHANGED parse_raw
    /\ UNCHANGED <<readerVars, nextId, decoderVars, translateVars, threadVars>>
    /\ UNCHANGED otherVars

LinkTypeNext == ParseLinkType

LinkTypeSpec == LinkTypeInit /\ [][LinkTypeNext]_vars

(***************************************************************************)
(* Properties of parse_wow_link_type.                                      *)
(***************************************************************************)

\* The tokens of s between colons, as str::split(':') yields them.
RECURSIVE ColonTokens(_)
ColonTokens(s) ==
    IF \A k \in 1 .. Len(s) : s[k] # ":" THEN <<s>>
    ELSE LET c == CHOOSE k \in 1 .. Len(s) :
                      s[k] = ":" /\ \A j \in 1 .. k - 1 : s[j] # ":"
         IN  <<SubSeq(s, 1, c - 1)>> \o ColonTokens(SubSeq(s, c + 1, Len(s)))

\* A decimal number: digits, after an optional sign.
Unsigned(t) == t # <<>> /\ \A k \in 1 .. Len(t) : IsDigit(t[k])

IsNumeric(t) ==
    \/ Unsigned(t)
    \/ Len(t) > 1 /\ t[1] \in {"+", "-"} /\ Unsigned(Tail(t))

IsNegative(t) == IsNumeric(t) /\ t[1] = "-"

\* The digits of a non-negative number without sign and leading zeros.
RECURSIVE StripZeros(_)
StripZeros(d) ==
    IF Len(d) > 1 /\ d[1] = "0" THEN StripZeros(Tail(d)) ELSE d

Magnitude(t) == StripZeros(IF t[1] = "+" THEN Tail(t) ELSE t)

\* a <= b for digit strings of one length.
RECURSIVE DigitsLeq(_, _)
DigitsLeq(a, b) ==
    IF a = <<>> THEN TRUE
    ELSE IF DigitVal(a[1]) # DigitVal(b[1]) THEN DigitVal(a[1]) < DigitVal(b[1])
    ELSE DigitsLeq(Tail(a), Tail(b))

\* d (without leading zeros) <= the number written as "limit".
AtMost(d, limit) ==
    Len(d) < Len(limit) \/ (Len(d) = Len(limit) /\ DigitsLeq(d, limit))

U32Max == <<"4", "2", "9", "4", "9", "6", "7", "2", "9", "5">>

I32Max == <<"2", "1", "4", "7", "4", "8", "3", "6", "4", "7">>

TooLarge(t) == IsNumeric(t) /\ ~IsNegative(t) /\ ~AtMost(Magnitude(t), U32Max)

\* The value of a digit string.
RECURSIVE ValueOf(_, _)
ValueOf(d, acc) ==
    IF d = <<>> THEN acc ELSE ValueOf(Tail(d), acc * 10 + DigitVal(d[1]))

\* The id a readable token stands for (-2 for one in 2^31 .. 2^32 - 1).
IdOf(t) ==
    IF AtMost(Magnitude(t), I32Max) THEN ValueOf(Magnitude(t), 0) ELSE 0 - 2

\* The reference type the first token selects.
KindOf(t) ==
    CASE t = Str_item -> "Item"
      [] t \in {Str_spell, Str_enchant} -> "Spell"
      [] t = Str_achievement -> "Achievement"
      [] t = Str_quest -> "Quest"
      [] t = Str_trade -> "Trade"
      [] OTHER -> "Other"

\* C32: the first token between colons selects the reference type, the
\* second is the id, which is 0 when that token is missing, empty,
\* non-numeric, negative or too large for 32 bits, and its value otherwise;
\* every link data parses to a reference type.
C32_LinkTypeAndLenientId ==
    parse_ret.called =>
        LET tokens == ColonTokens(parse_raw)
            lt == parse_ret.link_type
            bad == \/ Len(tokens) < 2
                   \/ tokens[2] = <<>>
                   \/ ~IsNumeric(tokens[2])
                   \/ IsNegative(tokens[2])
                   \/ TooLarge(tokens[2])
        IN  /\ lt.kind = KindOf(tokens[1])
            /\ lt.kind = "Other" => lt = OtherLink
            /\ lt.kind # "Other" => lt.id = IF bad THEN 0 ELSE IdOf(tokens[2])

\* A spell link written "enchant:4294967296:0:0", its id one more than
\* u32::MAX, has been parsed to Spell(0).
C32_Witness ==
    /\ parse_ret.called
    /\ parse_raw = Str_enchant \o <<":">> \o
                   <<"4", "2", "9", "4", "9", "6", "7", "2", "9", "6">> \o
                   <<":", "0", ":", "0">>
    /\ parse_ret.link_type = [kind |-> "Spell", id |-> 0]

(***************************************************************************)
(* player.rs: find_local_player_base walks the object manager's linked     *)
(* list in the target's memory.  PlayerSpec applies it to memories whose   *)
(* object lists end, run into an invalid pointer or an unreadable object,  *)
(* or are cyclic.                                                          *)
(***************************************************************************)

MIN_VALID_PTR == 65536

MAX_VALID_PTR == 2147418112

CLIENT_CONNECTION == 13081824

OBJECT_MANAGER_OFFSET == 11984

FIRST_OBJECT_OFFSET == 172

LOCAL_GUID_OFFSET == 192

NEXT_OBJECT_OFFSET == 60

OBJECT_GUID_OFFSET == 48

MAX_ITERATIONS == 500

is_valid_ptr(addr) == addr > MIN_VALID_PTR /\ addr < MAX_VALID_PTR

\* io::Result: Ok(v) and Err(kind).
Ok(v) == [ok |-> TRUE, v |-> v]

Err(kind) == [ok |-> FALSE, kind |-> kind]

\* What the target holds where a read is made, besides a value: the read
\* fails (ReadError), or it delivers fewer bytes than asked for.
ShortRead == 0 - 2

\* Where the modelled target keeps the client connection, the object
\* manager and its objects.
PlayerBases == <<1048576, 2097152, 3145728, 4194304>>

ConnBase == PlayerBases[1]

MgrBase == PlayerBases[2]

ObjectAddrs == {PlayerBases[3], PlayerBases[4]}

\* The 4 or 8 bytes of memory m at addr, read as a number; an address the
\* target has not mapped cannot be read.
Cell(m, addr) ==
    CASE addr = CLIENT_CONNECTION -> m.conn
      [] addr = ConnBase + OBJECT_MANAGER_OFFSET -> m.mgr
      [] addr = MgrBase + LOCAL_GUID_OFFSET -> m.local_guid
      [] addr = MgrBase + FIRST_OBJECT_OFFSET -> m.first
      [] \E a \in ObjectAddrs : addr = a + OBJECT_GUID_OFFSET ->
           m.objs[addr - OBJECT_GUID_OFFSET].guid
      [] \E a \in ObjectAddrs : addr = a + NEXT_OBJECT_OFFSET ->
           m.objs[addr - NEXT_OBJECT_OFFSET].next
      [] OTHER -> ReadError

\* read_u32_mem and read_u64_mem: the error of read_memory, UnexpectedEof
\* on a short read, the number otherwise.
read_u32_mem(m, addr) ==
    LET c == Cell(m, addr)
    IN  IF c = ReadError THEN Err("Other")
        ELSE IF c = ShortRead THEN Err("UnexpectedEof")
        ELSE Ok(c)

read_u64_mem(m, addr) == read_u32_mem(m, addr)

read_ptr(m, addr) ==
    LET r == read_u32_mem(m, addr)
    IN  IF ~r.ok THEN r
        ELSE IF ~is_valid_ptr(r.v) THEN Err("InvalidData")
        ELSE r

\* A loop that may run once more than the limit.
OneMore(iterations) == iterations <= MAX_ITERATIONS

\* Line 86: iterations < MAX_ITERATIONS
WithinLimit(iterations) == iterations < MAX_ITERATIONS

\* The function has returned r after the given number of passes of the loop.
Returned(r, iterations, passes) ==
    [pc |-> "done", ret |-> r, iterations |-> iterations, passes |-> passes]

\* The function is at the head of the while loop.
AtLoop(local_guid, current, iterations, passes) ==
    [pc |-> "loop", local_guid |-> local_guid, current |-> current,
     iterations |-> iterations, passes |-> passes]

\* Lines 71-84: the reads before the loop.
find_local_player_base(m) ==
    LET client_conn == read_ptr(m, CLIENT_CONNECTION)
    IN  IF ~client_conn.ok THEN Returned(client_conn, 0, 0)
        ELSE
    LET obj_mgr == read_ptr(m, client_conn.v + OBJECT_MANAGER_OFFSET)
    IN  IF ~obj_mgr.ok THEN Returned(obj_mgr, 0, 0)
        ELSE
    LET local_guid == read_u64_mem(m, obj_mgr.v + LOCAL_GUID_OFFSET)
    IN  IF ~local_guid.ok THEN Returned(local_guid, 0, 0)
        ELSE IF local_guid.v = 0 THEN Returned(Err("NotFound"), 0, 0)
        ELSE
    LET current == read_ptr(m, obj_mgr.v + FIRST_OBJECT_OFFSET)
    IN  IF ~current.ok THEN Returned(current, 0, 0)
        ELSE AtLoop(local_guid.v, current.v, 0, 0)

\* Lines 86-98: the test of the while loop in state st and, when it holds,
\* one pass of the body; the error after the loop when it does not.
WalkStep(m, st) ==
    IF is_valid_ptr(st.current) /\ WithinLimit(st.iterations)
    THEN LET guid == read_u64_mem(m, st.current + OBJECT_GUID_OFFSET)
             next == read_u32_mem(m, st.current + NEXT_OBJECT_OFFSET)
         IN  IF ~guid.ok THEN Returned(guid, st.iterations, st.passes + 1)
             ELSE IF guid.v = st.local_guid
             THEN Returned(Ok(st.current), st.iterations, st.passes + 1)
             ELSE IF ~next.ok THEN Returned(next, st.iterations, st.passes + 1)
             ELSE AtLoop(st.local_guid, next.v, st.iterations + 1, st.passes + 1)
    ELSE Returned(Err("NotFound"), st.iterations, st.passes)

\* The memories: each place holds a value or cannot be read, in full or at
\* all; an object's next pointer is an object, null or beyond user space.
PlayerMemories ==
    [conn : {ConnBase, 0},
     mgr : {MgrBase, ShortRead},
     local_guid : {0, 7, ReadError},
     first : ObjectAddrs \cup {0, ReadError},
     objs : [ObjectAddrs ->
                [guid : {7, 9, ShortRead},
                 next : ObjectAddrs \cup {0, MAX_VALID_PTR, ReadError}]]]

\* The function has not been called.
NotCalled == [pc |-> "start"]

PlayerInit ==
    /\ ReaderIdle
    /\ nextId = 1
    /\ DecoderIdle /\ ParserIdle /\ TranslateIdle /\ ThreadsIdle
    /\ LinkIdle /\ ExtractIdle /\ MemoryIdle /\ ScanIdle
    /\ AppIdle /\ ServiceIdle
    /\ pl_in \in PlayerMemories
    /\ pl_ret = NotCalled

PlayerUnchanged ==
    /\ UNCHANGED pl_in
    /\ UNCHANGED <<readerVars, nextId, decoderVars, parserVars, translateVars,
                   threadVars, linkVars, extractVars, memoryVars, scanVars,
                   appVars, serviceVars>>

\* Line 107: read_player_info calls find_local_player_base.
FindLocalPlayer ==
    /\ pl_ret.pc = "start"
    /\ pl_ret' = find_local_player_base(pl_in)
    /\ PlayerUnchanged

\* The while loop, one test and one pass at a time.
Walk ==
    /\ pl_ret.pc = "loop"
    /\ pl_ret' = WalkStep(pl_in, pl_ret)
    /\ PlayerUnchanged

PlayerNext == FindLocalPlayer \/ Walk


PlayerSpec == PlayerInit /\ [][PlayerNext]_vars

(***************************************************************************)
(* Properties of find_local_player_base.                                   *)
(***************************************************************************)

\* The objects the list holds from address a on, following at most n next
\* pointers that can be read.
RECURSIVE ListFrom(_, _, _)
ListFrom(m, a, n) ==
    IF a \notin ObjectAddrs THEN {}
    ELSE IF n = 0 \/ m.objs[a].next < 0 THEN {a}
    ELSE {a} \cup ListFrom(m, m.objs[a].next, n - 1)

\* The list of memory m comes back to one of its objects.
IsCyclic(m) ==
    \E a \in ListFrom(m, m.first, Cardinality(ObjectAddrs)) :
        m.objs[a].next >= 0 /\
        a \in ListFrom(m, m.objs[a].next, Cardinality(ObjectAddrs))

\* C40: on every memory, cyclic lists included, the traversal makes at most
\* 500 passes of its loop and then returns the player object (an object of
\* the list whose guid is the local guid), a not-found error or the error
\* of a read.
C40_TraversalTerminates ==
    /\ pl_ret.pc # "start" => pl_ret.passes <= 500 /\ pl_ret.iterations <= 500
    /\ (pl_ret.pc = "loop" /\ pl_ret.iterations = 500) =>
           WalkStep(pl_in, pl_ret).pc = "done"
    /\ pl_ret.pc = "done" =>
           \/ /\ pl_ret.ret.ok
              /\ pl_ret.ret.v \in
                     ListFrom(pl_in, pl_in.first, Cardinality(ObjectAddrs))
              /\ pl_in.objs[pl_ret.ret.v].guid = pl_in.local_guid
           \/ /\ ~pl_ret.ret.ok
              /\ pl_ret.ret.kind \in
                     {"NotFound", "Other", "UnexpectedEof", "InvalidData"}

\* An object list that is a cycle without the player has been walked for
\* 500 passes and the player reported as not found.
C40_Witness ==
    /\ pl_ret.pc = "done"
    /\ IsCyclic(pl_in)
    /\ pl_ret.passes = 500
    /\ pl_ret.ret = Err("NotFound")

(***************************************************************************)
(* main.rs: the application.  Every frame polls the chat reader when       *)
(* attached_pid is set, then takes the translation responses that have     *)
(* arrived, then draws the windows, where the user clicks at most one      *)
(* button.  The chat reader is its initialized flag and the id counter; a  *)
(* poll that panics ends the process and is no frame of the model.  The    *)
(* translation services of translation.rs are their two channels and the   *)
(* worker thread.                                                          *)
(***************************************************************************)

\* Length the message list is cut to (MAX_MESSAGES is 500).
MaxShown == 2

MAX_MESSAGES == MaxShown

\* Messages decoded in a run.
MaxPolled == 4

\* Translation services started in a run.
MaxServices == 2

\* Messages decoded in a run of the application with translation.
MaxTranslated == 1

\* The process ids the process search finds.
Pids == {4242}

\* u64::MAX, the message id of the translator window's requests, which no
\* chat message has; written -1, the model's integers ending at 2^31 - 1.
U64_MAX == 0 - 1

\* HashMap::insert
Put(map, key, value) ==
    [m \in DOMAIN map \cup {key} |-> IF m = key THEN value ELSE map[m]]

\* A poll that leaves attached_pid as it is.
KeepPid(pid) == pid

\* Line 542: state.attached_pid = None
ClearPid(pid) == None

\* A reset that leaves the reader as it is.
KeepFlag(flag) == flag

\* ChatReader::reset on the initialized flag.
ResetFlag(flag) == FALSE

\* drain(..n) taken from the wrong end.
DrainBack(list, n) == SubSeq(list, 1, Len(list) - n)

\* Vec::drain(..n): the list without its first n elements.
DrainFront(list, n) == SubSeq(list, n + 1, Len(list))

\* Lines 532-536: the new messages appended and the list cut to
\* MAX_MESSAGES.
Extend(list, new_msgs) ==
    LET all == list \o new_msgs
    IN  IF Len(all) > MAX_MESSAGES
        THEN DrainFront(all, Len(all) - MAX_MESSAGES)
        ELSE all

\* ChatReader::poll as the application sees it, on a reader with field h:
\* an error when the reader is not attached or the read fails; nothing
\* when the read is short; and when the whole buffer was read, k new
\* messages with the next ids, the reader initialized.  att is the
\* attachment the messages are decoded in, blank whether their text is
\* empty once prepared for translation.
PollResult(h, init, next, outcome, k, blank, att) ==
    IF h = None \/ outcome = "err"
    THEN [ret |-> "Err", initialized |-> init, nextId |-> next, msgs |-> <<>>,
          full |-> FALSE, is_first |-> FALSE]
    ELSE IF outcome = "short"
    THEN [ret |-> "Ok", initialized |-> init, nextId |-> next, msgs |-> <<>>,
          full |-> FALSE, is_first |-> FALSE]
    ELSE [ret |-> "Ok", initialized |-> TRUE, nextId |-> next + k,
          msgs |-> [i \in 1 .. k |->
                       [id |-> next + i - 1, att |-> att, blank |-> blank]],
          full |-> TRUE, is_first |-> ~init]

PollOutcomes == {"err", "short", "full"}

\* WorkItem and TranslationResponse.
Translate(id) == [kind |-> "Translate", message_id |-> id]

FetchLanguages == [kind |-> "FetchLanguages"]

Shutdown == [kind |-> "Shutdown"]

Success(id) == [kind |-> "Success", message_id |-> id]

Error(id) == [kind |-> "Error", message_id |-> id]

\* TranslationService::start: the work channel and the response channel,
\* both empty, and the thread spawned.  tx is the service's sender of work,
\* rx the receiver of responses, both held by the application.
start ==
    [work |-> <<>>, resp |-> <<>>, state |-> "spawned", cur |-> None,
     tx |-> TRUE, rx |-> TRUE]

\* work_tx.send(item): it fails, and nothing is queued, once the worker
\* has dropped the receiver.
Send(svc, item) ==
    IF svc.state = "exited" THEN svc
    ELSE [svc EXCEPT !.work = Append(@, item)]

SendTo(svcs, s, item) == [svcs EXCEPT ![s] = Send(@, item)]

\* Dropping the service: Drop sends Shutdown, then the sender is gone.
DropService(svc) == [Send(svc, Shutdown) EXCEPT !.tx = FALSE]

\* Lines 518-527 and 1632-1641: the entry set to Pending and the request
\* sent.  st is [tr, svcs], the translations and the services.
Request(st, s, id) ==
    [tr |-> Put(st.tr, id, "Pending"), svcs |-> SendTo(st.svcs, s, Translate(id))]

\* Lines 513-529: the loop over the new messages from the i-th on.
RECURSIVE RequestAll(_, _, _, _)
RequestAll(st, s, msgs, i) ==
    IF i > Len(msgs) THEN st
    ELSE RequestAll(IF msgs[i].blank THEN st ELSE Request(st, s, msgs[i].id),
                    s, msgs, i + 1)

\* Lines 556-591: one response.  st is [tr, pending], the translations and
\* translator_pending.
HandleResponse(st, resp) ==
    CASE resp.kind = "Success" ->
           IF resp.message_id = U64_MAX THEN [st EXCEPT !.pending = FALSE]
           ELSE [st EXCEPT !.tr = Put(@, resp.message_id, "Done")]
      [] resp.kind = "Error" ->
           IF resp.message_id = U64_MAX THEN [st EXCEPT !.pending = FALSE]
           ELSE [st EXCEPT !.tr = Put(@, resp.message_id, "Error")]
      [] OTHER -> st

\* Line 555: while let Ok(resp) = rx.try_recv(), from the i-th response of
\* the queue on.
RECURSIVE HandleAll(_, _, _)
HandleAll(st, queue, i) ==
    IF i > Len(queue) THEN st
    ELSE HandleAll(HandleResponse(st, queue[i]), queue, i + 1)

\* The item taken last instead of first.
LastItem(work) == work[Len(work)]

\* work_rx.recv(): the oldest item of the channel.
FirstItem(work) == Head(work)

\* What the worker answers to item when the API call ends with outcome:
\* a language code that does not parse, a translation, no translation, or
\* an error.
ApiOutcomes == {"invalid_target", "invalid_source", "ok", "empty", "error"}

Respond(item, outcome) ==
    IF item.kind = "FetchLanguages"
    THEN IF outcome = "ok" THEN [kind |-> "Languages"]
         ELSE [kind |-> "LanguagesError"]
    ELSE IF outcome = "ok" THEN Success(item.message_id)
    ELSE Error(item.message_id)

\* App::new: not attached, nothing shown; the service started when the API
\* key is configured.
AppInit(keyed) ==
    /\ ReaderIdle
    /\ nextId = 1
    /\ DecoderIdle /\ ParserIdle /\ TranslateIdle /\ ThreadsIdle
    /\ LinkIdle /\ ExtractIdle /\ ScanIdle /\ PlayerIdle
    /\ handle = None
    /\ os = [open |-> {}, opened |-> 0]
    /\ mem_call = NoCall
    /\ attached_pid = None
    /\ chat_messages = <<>>
    /\ player_info = None
    /\ frame = "poll"
    /\ polled = NoCall
    /\ ui = NoCall
    /\ synced = FALSE
    /\ appended = <<>>
    /\ translations = EmptyMap
    /\ translator_pending = FALSE
    /\ auto_translate \in BOOLEAN
    /\ IF keyed
       THEN /\ services = <<Send(start, FetchLanguages)>>
            /\ translation_service = Some(1)
            /\ translation_rx = Some(1)
       ELSE /\ services = <<>>
            /\ translation_service = None
            /\ translation_rx = None

\* What no step of the application changes.
AppUnchanged ==
    UNCHANGED <<fingerprints, op, rd, is_first, decoded, new_messages, ret,
                lastFull, decoderVars, parserVars, translateVars, threadVars,
                linkVars, extractVars, scanVars, playerVars, platform,
                mem_call, auto_translate>>

\* Lines 499-551: the poll of the frame.  outcome, k and blank are what
\* the poll finds, close what the OS answers if the handle is closed, info
\* whether the player can be read.
PollPhase(outcome, k, blank, close, info) ==
    /\ frame = "poll"
    /\ frame' = "responses"
    /\ IF attached_pid = None
       THEN /\ polled' = NoCall
            /\ player_info' = None
            /\ UNCHANGED <<attached_pid, chat_messages, synced, appended,
                           initialized, nextId, handle, os, translations,
                           services>>
       ELSE LET r == PollResult(handle, initialized, nextId, outcome, k, blank,
                                os.opened)
                d == detach(handle, os.open, close)
                st == IF auto_translate /\ translation_service # None
                      THEN RequestAll([tr |-> translations, svcs |-> services],
                                      translation_service[1], r.msgs, 1)
                      ELSE [tr |-> translations, svcs |-> services]
            IN  /\ polled' = [called |-> TRUE, ret |-> r.ret, full |-> r.full,
                              is_first |-> r.is_first, synced |-> synced,
                              reader |-> is_attached, n |-> Len(r.msgs)]
                /\ nextId' = r.nextId
                /\ IF r.ret = "Ok"
                   THEN /\ initialized' = r.initialized
                        /\ synced' = (synced \/ r.full)
                        /\ translations' = st.tr
                        /\ services' = st.svcs
                        /\ chat_messages' = Extend(chat_messages, r.msgs)
                        /\ appended' = appended \o r.msgs
                        /\ player_info' \in IF info THEN {Some("info")} ELSE {None}
                        /\ UNCHANGED <<attached_pid, handle, os>>
                   ELSE /\ attached_pid' = ClearPid(attached_pid)
                        /\ handle' = d.handle
                        /\ os' = [os EXCEPT !.open = d.open]
                        /\ initialized' = ResetFlag(r.initialized)
                        /\ player_info' = None
                        /\ UNCHANGED <<chat_messages, synced, appended,
                                       translations, services>>
    /\ ui' = NoCall
    /\ UNCHANGED <<translation_service, translation_rx, translator_pending>>
    /\ AppUnchanged

\* Lines 553-593: the responses that have arrived are taken off the
\* channel and handled.
ResponsePhase ==
    /\ frame = "responses"
    /\ frame' = "ui"
    /\ IF translation_rx = None
       THEN UNCHANGED <<translations, translator_pending, services>>
       ELSE LET s == translation_rx[1]
                st == HandleAll([tr |-> translations, pending |-> translator_pending],
                                services[s].resp, 1)
            IN  /\ translations' = st.tr
                /\ translator_pending' = st.pending
                /\ services' = [services EXCEPT ![s].resp = <<>>]
    /\ UNCHANGED <<attached_pid, chat_messages, player_info, polled, ui, synced,
                   appended, initialized, nextId, handle, os,
                   translation_service, translation_rx>>
    /\ AppUnchanged

\* The end of a frame's user interface.
EndFrame(event) ==
    /\ frame = "ui"
    /\ frame' = "poll"
    /\ ui' = event
    /\ polled' = NoCall
    /\ UNCHANGED <<player_info, nextId>>
    /\ AppUnchanged

\* No button is clicked.
UiNone ==
    /\ EndFrame([kind |-> "none"])
    /\ UNCHANGED <<attached_pid, chat_messages, synced, appended, initialized,
                   handle, os, serviceVars>>

\* Lines 731-786: the Attach button, enabled when the frame began its
\* interface without attached_pid.  found tells whether the process search
\* finds the process, opened whether the OS lets it be opened.
UiAttach(pid, found, close, opened) ==
    /\ attached_pid = None
    /\ os.opened < MaxOpens
    /\ LET a == attach(handle, os, close, opened)
       IN  IF ~found
           THEN /\ EndFrame([kind |-> "attach", ret |-> "NotFound"])
                /\ UNCHANGED <<attached_pid, chat_messages, synced, appended,
                               initialized, handle, os>>
           ELSE /\ EndFrame([kind |-> "attach", ret |-> a.ret])
                /\ handle' = a.handle
                /\ os' = a.os
                /\ IF a.ret = "Ok"
                   THEN /\ attached_pid' = Some(pid)
                        /\ initialized' = ResetFlag(initialized)
                        /\ chat_messages' = <<>>
                        /\ appended' = <<>>
                        /\ synced' = FALSE
                   ELSE UNCHANGED <<attached_pid, chat_messages, synced,
                                    appended, initialized>>
    /\ UNCHANGED serviceVars

\* Lines 790-803: the Detach button, enabled when the frame began its
\* interface with attached_pid.
UiDetach(close) ==
    /\ attached_pid # None
    /\ LET d == detach(handle, os.open, close)
       IN  /\ EndFrame([kind |-> "detach", ret |-> d.ret])
           /\ handle' = d.handle
           /\ os' = [os EXCEPT !.open = d.open]
           /\ IF d.ret = "Ok"
              THEN /\ attached_pid' = None
                   /\ initialized' = ResetFlag(initialized)
              ELSE UNCHANGED <<attached_pid, initialized>>
    /\ UNCHANGED <<chat_messages, synced, appended, serviceVars>>

\* Lines 1554-1556: the Clear button.
UiClear ==
    /\ EndFrame([kind |-> "clear"])
    /\ chat_messages' = <<>>
    /\ appended' = <<>>
    /\ UNCHANGED <<attached_pid, synced, initialized, handle, os, serviceVars>>

\* Lines 1038-1062: Save & Connect; key tells whether the key entered is
\* not empty.
UiSaveConnect(key) ==
    /\ key => Len(services) < MaxServices
    /\ EndFrame([kind |-> "save_connect", key |-> key])
    /\ translations' = EmptyMap
    /\ LET old == IF translation_service = None THEN services
                  ELSE [services EXCEPT ![translation_service[1]] =
                            DropService(Send(@, Shutdown))]
           closed == IF translation_rx = None THEN old
                     ELSE [old EXCEPT ![translation_rx[1]].rx = FALSE]
       IN  IF key
           THEN /\ services' = Append(closed, Send(start, FetchLanguages))
                /\ translation_service' = Some(Len(services) + 1)
                /\ translation_rx' = Some(Len(services) + 1)
           ELSE /\ services' = closed
                /\ translation_service' = None
                /\ translation_rx' = None
    /\ UNCHANGED <<attached_pid, chat_messages, synced, appended, initialized,
                   handle, os, translator_pending>>

\* Lines 1463-1492: the translator window's Translate button, enabled when
\* no request is pending, the input is not blank and a service exists.
UiTranslate ==
    /\ ~translator_pending
    /\ translation_service # None
    /\ EndFrame([kind |-> "translate"])
    /\ translator_pending' = TRUE
    /\ services' = SendTo(services, translation_service[1], Translate(U64_MAX))
    /\ UNCHANGED <<attached_pid, chat_messages, synced, appended, initialized,
                   handle, os, translation_service, translation_rx,
                   translations>>

\* Lines 1820-1829 and 1626-1644: the [T] button of the i-th message
\* shown, there when its entry is not Pending and a service exists.
UiTranslateMessage(i) ==
    /\ i \in 1 .. Len(chat_messages)
    /\ translation_service # None
    /\ LET id == chat_messages[i].id
           st == IF chat_messages[i].blank
                 THEN [tr |-> translations, svcs |-> services]
                 ELSE Request([tr |-> translations, svcs |-> services],
                              translation_service[1], id)
       IN  /\ ~(id \in DOMAIN translations /\ translations[id] = "Pending")
           /\ EndFrame([kind |-> "translate_message", id |-> id])
           /\ translations' = st.tr
           /\ services' = st.svcs
    /\ UNCHANGED <<attached_pid, chat_messages, synced, appended, initialized,
                   handle, os, translation_service, translation_rx,
                   translator_pending>>

\* What no step of a worker changes.
WorkerUnchanged ==
    /\ UNCHANGED <<appVars, initialized, nextId, handle, os, translation_service,
                   translation_rx, translations, translator_pending>>
    /\ AppUnchanged

\* translation.rs lines 90-103: the thread of service s creates its
\* runtime; when that fails it returns, dropping its ends of the channels.
WorkerStart(s, created) ==
    /\ s \in 1 .. Len(services)
    /\ services[s].state = "spawned"
    /\ services' = [services EXCEPT ![s].state =
                       IF created THEN "idle" ELSE "exited"]
    /\ WorkerUnchanged

\* Lines 106-111: recv hands the worker an item; Shutdown leaves the loop
\* and the thread exits.  recv does not fail: the service queues Shutdown
\* before it drops its sender.
WorkerRecv(s) ==
    /\ s \in 1 .. Len(services)
    /\ services[s].state = "idle"
    /\ services[s].work # <<>>
    /\ LET item == FirstItem(services[s].work)
       IN  services' = [services EXCEPT
               ![s].work = Tail(@),
               ![s].cur = IF item = Shutdown THEN None ELSE Some(item),
               ![s].state = IF item = Shutdown THEN "exited" ELSE "busy"]
    /\ WorkerUnchanged

\* Lines 112-209: the item is handled and its one response sent; the send
\* is lost when the application has dropped the receiver.
WorkerFinish(s, outcome) ==
    /\ s \in 1 .. Len(services)
    /\ services[s].state = "busy"
    /\ LET response == Respond(services[s].cur[1], outcome)
       IN  services' = [services EXCEPT
               ![s].resp = IF services[s].rx THEN Append(@, response) ELSE @,
               ![s].cur = None,
               ![s].state = "idle"]
    /\ WorkerUnchanged

\* AttachSpec: the application without an API key; the user attaches,
\* detaches and clears the list, polls fail, fall short or bring messages.
AttachInit == platform \in {"linux", "windows"} /\ AppInit(FALSE)

AttachNext ==
    \/ \E outcome \in PollOutcomes : \E k \in 0 .. CHAT_BUFFER_SIZE :
           \E close \in CloseOutcomes(platform) : \E info \in BOOLEAN :
               /\ nextId + k <= MaxPolled + 1
               /\ PollPhase(outcome, k, FALSE, close, info)
    \/ ResponsePhase
    \/ UiNone
    \/ \E pid \in Pids : \E found, opened \in BOOLEAN :
           \E close \in CloseOutcomes(platform) :
               UiAttach(pid, found, close, opened)
    \/ \E close \in CloseOutcomes(platform) : UiDetach(close)
    \/ UiClear

AttachSpec == AttachInit /\ [][AttachNext]_vars

(***************************************************************************)
(* Properties of the application's attachment and message list.            *)
(***************************************************************************)

\* The frame takes the step from its poll to the responses.
PollStep == frame = "poll" /\ frame' = "responses"

\* The frame takes the step that ends its user interface.
UiStep == frame = "ui" /\ frame' = "poll"

\* C33: a frame polls exactly when attached_pid is set; when the poll
\* returns an error, that step of the frame clears attached_pid, detaches
\* the memory reader and resets the chat reader; and attached_pid is set
\* again only by an attach that succeeds.
C33_PollErrorDetaches ==
    [][/\ PollStep => (polled'.called <=> attached_pid # None)
       /\ (PollStep /\ polled'.called /\ polled'.ret = "Err") =>
              /\ attached_pid' = None
              /\ handle' = None
              /\ ~initialized'
       /\ (attached_pid = None /\ attached_pid' # None) =>
              UiStep /\ ui'.kind = "attach" /\ ui'.ret = "Ok"]_vars

\* A poll on an attached reader has failed and the frame has detached.
C33_Witness ==
    /\ frame = "responses"
    /\ polled.called /\ polled.ret = "Err" /\ polled.reader
    /\ attached_pid = None
    /\ handle = None
    /\ ~initialized

\* C34: an attach that succeeds leaves the chat reader uninitialized and
\* the message list empty; the first poll of an attachment that gets the
\* whole buffer is a full resynchronization; and while attached_pid is
\* set, every message of the list was decoded during the current
\* attachment.
C34_AttachStartsAfresh ==
    [][/\ (UiStep /\ ui'.kind = "attach" /\ ui'.ret = "Ok") =>
              /\ ~initialized'
              /\ chat_messages' = <<>>
       /\ (PollStep /\ polled'.called /\ polled'.full /\ ~polled'.synced) =>
              polled'.is_first
       /\ attached_pid' # None =>
              \A i \in 1 .. Len(chat_messages') :
                  chat_messages'[i].att = os'.opened]_vars

\* The first full poll of a second attachment has resynchronized and put
\* its messages in the list.
C34_Witness ==
    /\ frame = "responses"
    /\ attached_pid # None
    /\ os.opened > 1
    /\ polled.called /\ polled.full /\ ~polled.synced /\ polled.is_first
    /\ chat_messages # <<>>

\* C35 as stated: at the end of every frame attached_pid is set exactly
\* when the memory reader is attached.
C35_PidIffReaderAttached ==
    frame = "poll" => (attached_pid # None <=> is_attached)

\* C39: the message list never holds more than MAX_MESSAGES messages and is
\* the most recent ones of those appended since it was last cleared, in
\* the order they were appended.
C39_ListIsRecentSuffix ==
    /\ Len(chat_messages) <= MAX_MESSAGES
    /\ Len(chat_messages) = Min(Len(appended), MAX_MESSAGES)
    /\ \A i \in 1 .. Len(chat_messages) :
           chat_messages[i] =
               appended[Len(appended) - Len(chat_messages) + i]

\* A frame has ended with a full list from which the oldest messages have
\* been dropped.
C39_Witness ==
    /\ frame = "poll"
    /\ Len(appended) > MAX_MESSAGES
    /\ Len(chat_messages) = MAX_MESSAGES
    /\ chat_messages[1].id > appended[1].id

(***************************************************************************)
(* ServiceSpec: the application with its translation services and their    *)
(* worker threads.  The user attaches, saves and connects with or without  *)
(* a key, translates in the translator window and clicks [T] on messages;  *)
(* polls bring messages, which are translated automatically when           *)
(* auto_translate is set; a worker's runtime may fail to start.            *)
(***************************************************************************)

ServiceInit == platform = "linux" /\ \E keyed \in BOOLEAN : AppInit(keyed)

FramePoll ==
    \E outcome \in {"full"} : \E k \in 0 .. CHAT_BUFFER_SIZE :
        \E blank \in BOOLEAN :
            /\ nextId + k <= MaxTranslated + 1
            /\ PollPhase(outcome, k, blank, "ok", FALSE)

FrameUi ==
    \/ UiNone
    \/ \E pid \in Pids : UiAttach(pid, TRUE, "ok", TRUE)
    \/ \E key \in BOOLEAN : UiSaveConnect(key)
    \/ UiTranslate
    \/ \E i \in 1 .. MAX_MESSAGES : UiTranslateMessage(i)

Worker(s) ==
    \/ \E created \in BOOLEAN : WorkerStart(s, created)
    \/ WorkerRecv(s)
    \/ \E outcome \in ApiOutcomes : WorkerFinish(s, outcome)

ServiceNext ==
    \/ FramePoll
    \/ ResponsePhase
    \/ FrameUi
    \/ \E s \in 1 .. MaxServices : Worker(s)

ServiceSpec == ServiceInit /\ [][ServiceNext]_vars

(***************************************************************************)
(* WorkerSpec: one translation service and the calls its owner makes on    *)
(* it (translation.rs lines 220-240), in any order, against its worker.    *)
(***************************************************************************)

\* Items and responses the channels hold at a time.
MaxQueued == 2

\* Message ids of the requests.
RequestIds == {1, 2}

WorkerInit ==
    /\ ReaderIdle
    /\ nextId = 1
    /\ DecoderIdle /\ ParserIdle /\ TranslateIdle /\ ThreadsIdle
    /\ LinkIdle /\ ExtractIdle /\ MemoryIdle /\ ScanIdle /\ PlayerIdle
    /\ AppIdle
    /\ translation_service = None
    /\ translation_rx = None
    /\ translations = EmptyMap
    /\ translator_pending = FALSE
    /\ auto_translate = FALSE
    /\ services = <<start>>

\* translate, fetch_languages and shutdown: the item is sent.
Call(item) ==
    /\ services[1].tx
    /\ Len(services[1].work) < MaxQueued
    /\ services' = SendTo(services, 1, item)
    /\ WorkerUnchanged

\* The service is dropped.
Drop ==
    /\ services[1].tx
    /\ services' = [services EXCEPT ![1] = DropService(@)]
    /\ WorkerUnchanged

\* The owner takes the oldest response off the channel.
TryRecv ==
    /\ services[1].rx
    /\ services[1].resp # <<>>
    /\ services' = [services EXCEPT ![1].resp = Tail(@)]
    /\ WorkerUnchanged

\* The owner drops the receiver of the responses.
DropReceiver ==
    /\ services[1].rx
    /\ services' = [services EXCEPT ![1].rx = FALSE]
    /\ WorkerUnchanged

WorkerNext ==
    \/ \E id \in RequestIds : Call(Translate(id))
    \/ Call(FetchLanguages)
    \/ Call(Shutdown)
    \/ Drop
    \/ TryRecv
    \/ DropReceiver
    \/ \E created \in BOOLEAN : WorkerStart(1, created)
    \/ WorkerRecv(1)
    \/ \E outcome \in ApiOutcomes :
           Len(services[1].resp) < MaxQueued /\ WorkerFinish(1, outcome)

WorkerSpec == WorkerInit /\ [][WorkerNext]_vars

(***************************************************************************)
(* Properties of the translation worker.                                   *)
(***************************************************************************)

\* Sequence a begins sequence b.
IsPrefix(a, b) == Len(a) <= Len(b) /\ SubSeq(b, 1, Len(a)) = a

\* The response channel r after the owner has taken nothing, one response
\* or everything off it.
Taken(r) == {r, <<>>} \cup IF r = <<>> THEN {} ELSE {Tail(r)}

\* C36: the worker takes the items off the channel one at a time, oldest
\* first; for every Translate item it sends exactly one response, Success
\* or Error, with that item's message_id, behind the responses sent before;
\* Shutdown ends it, and once ended it takes no item and sends nothing.
C36_WorkerInOrder ==
    [][\A s \in 1 .. Len(services) :
          LET a == services[s]
              b == services'[s]
          IN  /\ a.state = "exited" =>
                     b.state = "exited" /\ b.work = a.work /\ b.resp \in Taken(a.resp)
              /\ (a.state = "idle" /\ b.state = "idle") =>
                     IsPrefix(a.work, b.work) /\ b.resp \in Taken(a.resp)
              /\ (a.state = "idle" /\ b.state = "busy") =>
                     /\ a.work # <<>>
                     /\ Head(a.work) # Shutdown
                     /\ b.cur = Some(Head(a.work))
                     /\ b.work = Tail(a.work)
                     /\ b.resp = a.resp
              /\ (a.state = "idle" /\ b.state = "exited") =>
                     /\ a.work # <<>>
                     /\ Head(a.work) = Shutdown
                     /\ b.work = Tail(a.work)
                     /\ b.resp = a.resp
              /\ (a.state = "busy" /\ b.state = "busy") =>
                     /\ b.cur = a.cur
                     /\ IsPrefix(a.work, b.work)
                     /\ b.resp \in Taken(a.resp)
              /\ (a.state = "busy" /\ b.state # "busy") =>
                     /\ b.state = "idle"
                     /\ b.work = a.work
                     /\ a.rx =>
                            /\ Len(b.resp) = Len(a.resp) + 1
                            /\ IsPrefix(a.resp, b.resp)
                            /\ a.cur[1].kind = "Translate" =>
                                   /\ b.resp[Len(b.resp)].kind \in {"Success", "Error"}
                                   /\ b.resp[Len(b.resp)].message_id =
                                          a.cur[1].message_id
                     /\ ~a.rx => b.resp = a.resp]_vars

\* The worker has answered the requests for messages 1 and 2 in that order
\* and has ended on Shutdown, leaving a later item in the channel.
C36_Witness ==
    /\ services # <<>>
    /\ services[1].state = "exited"
    /\ services[1].work = <<Translate(1)>>
    /\ services[1].resp \in
           {<<first, second>> : first \in {Success(1), Error(1)},
                                second \in {Success(2), Error(2)}}

(***************************************************************************)
(* FairServiceSpec: ServiceSpec with the frame loop and every worker       *)
(* thread scheduled fairly.  The frame loop runs its three phases for as   *)
(* long as the window is open, and a worker thread that can take a step    *)
(* (start, receive a queued item, get the answer of its API call) takes    *)
(* it.                                                                     *)
(***************************************************************************)

FairServiceSpec ==
    /\ ServiceSpec
    /\ WF_vars(FramePoll)
    /\ WF_vars(ResponsePhase)
    /\ WF_vars(FrameUi)
    /\ \A s \in 1 .. MaxServices : WF_vars(Worker(s))

\* The translation entry of message id is Pending.
IsPending(id) == id \in DOMAIN translations /\ translations[id] = "Pending"

\* C37: a translation entry that is Pending is eventually Done, Error or
\* removed.
C37_PendingResolved ==
    \A id \in 1 .. MaxTranslated : IsPending(id) ~> ~IsPending(id)

\* C38: when the translator window's request is pending, translator_pending
\* is eventually false again.
C38_TranslatorPendingCleared == translator_pending ~> ~translator_pending

====
